---- MODULE Spec2Model ----
(***************************************************************************)
(* Model of the liff-bot chat client and redemption route.                 *)
(*                                                                         *)
(*   - Local conversation store   (app/utils/chat.ts)          SpecStore   *)
(*   - Message validation         (app/utils/chat.ts)          SpecValid   *)
(*   - Retry/backoff executor     (app/utils/errorHandling.ts) SpecRetry   *)
(*   - Offline send queue         (app/utils/errorHandling.ts) SpecQueue   *)
(*   - Code redemption route      (app/api/redeem/route.ts)    SpecRedeem  *)
(*   - Chat page                  (app/ai-chat/page.tsx)       SpecChat    *)
(*   - Connectivity monitor       (app/utils/errorHandling.ts) SpecNet     *)
(*   - Life of a queued message   (app/utils/errorHandling.ts) SpecLife    *)
(*   - Response stream loop       (app/ai-chat/page.tsx)       SpecStream  *)
(*   - Product consultation       (conversationalFlow.ts)      SpecDialog  *)
(*                                                                         *)
(* Every component has its own specification over the variables of the     *)
(* component; the variables of the other components keep their idle value. *)
(***************************************************************************)
EXTENDS Integers, Sequences, FiniteSets, TLC

(***************************************************************************)
(* Bounds of the model.                                                    *)
(***************************************************************************)
\* store calls of a run that starts with no history
MaxSteps == 2
\* store calls of a run that starts with the history of an earlier session
MaxStepsAfter == 1
\* milliseconds the clock may advance
MaxTime == 1
\* store calls during which a backend misbehaves (throws, or is short of space)
MaxFaults == 1
\* runs of equal characters in a validated string
MaxRuns == 2
\* failures of an operation before its first success
MaxFailures == 3
\* greatest maxRetries a caller of retryWithBackoff passes
MaxRetryOption == 3
\* calls of queueMessageForRetry
MaxQueued == 2
\* calls of processQueuedMessages
MaxDrains == 2
\* user messages of one product consultation
MaxTurns == 4
\* text chunks of one streamed reply
MaxDeltas == 2
\* calls of processQueuedMessages that follow one another
MaxLifeDrains == 5
\* POST /api/redeem requests
MaxRequests == 2
\* calls of handleSubmit
MaxSubmits == 2
\* conversations the chat page creates
MaxCreated == 2
\* calls of initializeNetworkMonitoring
MaxMonitors == 2
\* calls of addConnectivityListener
MaxListeners == 3

VARIABLES
    \* local conversation store
    ls,         \* localStorage['ai-chat-history']: <<>> or <<serialized document>>
    ss,         \* sessionStorage['ai-chat-history']: <<>> or <<serialized document>>
    now,        \* Date.now()
    convCount,  \* conversations created so far (source of fresh ids)
    msgCount,   \* messages created so far (source of fresh ids)
    faults,     \* store calls so far during which a backend misbehaved
    budget,     \* store calls left to the run
    appended,   \* history: conversation id -> messages whose append reported success
    res,        \* outcome of the last store operation
    \* message validation
    vInput,     \* the value passed to validateMessageInput
    vDone,      \* validateMessageInput has returned
    vResult,    \* what it returned
    \* connectivity monitor
    isOnline,   \* module variable isOnline of errorHandling.ts
    navigatorOnLine,        \* navigator.onLine
    connectivityListeners,  \* module variable connectivityListeners
    monitors,   \* calls of initializeNetworkMonitoring so far
    registered, \* calls of addConnectivityListener so far
    calls,      \* the listener invocations of the latest event or probe
    \* retry executor: one run of retryWithBackoff
    operation,        \* the operation passed: the error it fails with, and how often
    configMaxRetries, \* config.maxRetries
    rPc,              \* position of the run: "try", "backoff", "returned", "thrown"
    retryCount,       \* local retryCount
    rCalls,           \* invocations of the operation
    rWaits,           \* backoff waits started
    rFastFails,       \* attempts that found the monitor offline
    lastError,        \* local lastError
    \* offline send queue
    messageQueue,     \* module variable messageQueue
    drains,           \* the invocations of processQueuedMessages
    queued,           \* calls of queueMessageForRetry so far
    pushes,           \* messageQueue.push calls so far
    \* redemption route
    Code,             \* Firestore collection Code: code -> document
    Point,            \* Firestore collection Point: the history entries
    User,             \* Firestore collection User: the user documents
    reqs,             \* the POST /api/redeem requests
    \* chat page
    isInitialized,
    currentConversation,  \* id of the conversation held in state, or Null
    messages,             \* displayed messages
    input,
    isLoading,
    error,
    fetchCalls,           \* calls of fetch('/api/chat')
    chatPc,               \* "idle", or "sending" while handleSubmit awaits the reply
    currentInput,         \* const currentInput of the handleSubmit in flight
    submits,              \* calls of handleSubmit so far
    retries,              \* calls of handleRetry so far
    sendConversation,     \* currentConversation.id in the closure of that handleSubmit
    deltas,               \* text-deltas of the response stream not read yet
    assistantContent,     \* let assistantContent of sendMessageToAPI
    streamIndex,          \* position of assistantMessage in messages, 0 if absent
    textStream,           \* the chunks of result.textStream the route has streamed
    body,                 \* the part of response.body the reader has not yielded yet
    \* product consultation
    consultation,         \* the messages of the request body, oldest first
    response              \* what processConversationalMessage returned for the last one

storeVars == <<ls, ss, now, convCount, msgCount, faults, budget, appended, res>>
validVars == <<vInput, vDone, vResult>>
monitorVars == <<navigatorOnLine, connectivityListeners, monitors, registered, calls>>
netVars == <<isOnline, monitorVars>>
retryVars == <<operation, configMaxRetries, rPc, retryCount, rCalls, rWaits,
               rFastFails, lastError>>
queueVars == <<messageQueue, drains, queued, pushes>>
redeemVars == <<Code, Point, User, reqs>>
chatVars == <<isInitialized, currentConversation, messages, input, isLoading, error,
              fetchCalls, chatPc, currentInput, submits, retries, sendConversation,
              deltas, assistantContent, streamIndex, textStream, body, consultation, response>>

vars == <<storeVars, validVars, netVars, retryVars, queueVars, redeemVars, chatVars>>

nonStoreVars == <<validVars, netVars, retryVars, queueVars, redeemVars, chatVars>>

\* currentConversationId: null
Null == 0
\* result.error / result.warning: undefined
NoText == "undefined"

\* the (role, content) pairs the callers of createMessage pass
MessageInputs == {<<"user", "a">>, <<"assistant", "b">>}

Min(a, b) == IF a < b THEN a ELSE b

\* Date.prototype.toJSON: a Date serializes as its ISO string (millisecond precision)
ToISOString(t) == <<"iso", t>>
\* new Date(isoString)
NewDate(s) == s[2]

createMessage(id, role, content, t) ==
    [id |-> id, role |-> role, content |-> content, timestamp |-> t]

createConversation(id, t) ==
    [id |-> id, messages |-> <<>>, createdAt |-> t, updatedAt |-> t]

getDefaultChatStorage ==
    [conversations |-> <<>>, currentConversationId |-> Null, settings |-> "light-medium"]

\* JSON.stringify(storage): Date fields become ISO strings
JSONStringify(storage) ==
    [conversations |->
        [i \in 1..Len(storage.conversations) |->
            LET conv == storage.conversations[i] IN
            [id |-> conv.id,
             createdAt |-> ToISOString(conv.createdAt),
             updatedAt |-> ToISOString(conv.updatedAt),
             messages |-> [j \in 1..Len(conv.messages) |->
                 LET msg == conv.messages[j] IN
                 [id |-> msg.id, role |-> msg.role, content |-> msg.content,
                  timestamp |-> ToISOString(msg.timestamp)]]]],
     currentConversationId |-> storage.currentConversationId,
     settings |-> storage.settings]

\* JSON.parse followed by the rehydration of the Date fields
Rehydrate(parsed) ==
    [conversations |->
        [i \in 1..Len(parsed.conversations) |->
            LET conv == parsed.conversations[i] IN
            [id |-> conv.id,
             createdAt |-> NewDate(conv.createdAt),
             updatedAt |-> NewDate(conv.updatedAt),
             messages |-> [j \in 1..Len(conv.messages) |->
                 LET msg == conv.messages[j] IN
                 [id |-> msg.id, role |-> msg.role, content |-> msg.content,
                  timestamp |-> NewDate(msg.timestamp)]]]],
     currentConversationId |-> parsed.currentConversationId,
     settings |-> parsed.settings]

\* conversations.findIndex(conv => conv.id === id): 0 when absent
FindIndex(convs, id) ==
    IF \E i \in 1..Len(convs) : convs[i].id = id
    THEN CHOOSE i \in 1..Len(convs) :
            /\ convs[i].id = id
            /\ \A j \in 1..(i - 1) : convs[j].id # id
    ELSE 0

\* Array.prototype.sort((a, b) => b.updatedAt - a.updatedAt): stable, most recent first
RECURSIVE InsertByRecency(_, _)
InsertByRecency(c, s) ==
    IF s = <<>> THEN <<c>>
    ELSE IF Head(s).updatedAt >= c.updatedAt
         THEN <<Head(s)>> \o InsertByRecency(c, Tail(s))
         ELSE <<c>> \o s

\* mutant: least recently updated first
RECURSIVE SortByRecency_OldestFirst(_)
SortByRecency_OldestFirst(s) ==
    IF s = <<>> THEN <<>>
    ELSE LET rest == SortByRecency_OldestFirst(Tail(s))
             older == SelectSeq(rest, LAMBDA c : c.updatedAt <= Head(s).updatedAt)
             newer == SelectSeq(rest, LAMBDA c : c.updatedAt > Head(s).updatedAt)
         IN older \o <<Head(s)>> \o newer

RECURSIVE SortByRecency(_)
SortByRecency(s) ==
    IF s = <<>> THEN <<>>
    ELSE InsertByRecency(s[Len(s)], SortByRecency(SubSeq(s, 1, Len(s) - 1)))

\* const maxConversations = 5
maxConversations == 5

\* ids of the conversations of a run: those an earlier session left, those it creates
EarlierConvs == maxConversations + 1
ConvIds == 1..(EarlierConvs + MaxSteps)

\* mutant: the current conversation is not put back after the cut
optimizeStorageForSpace_DropsCurrent(storage) ==
    LET sortedConversations == SortByRecency(storage.conversations)
    IN [storage EXCEPT !.conversations =
            SubSeq(sortedConversations, 1,
                   Min(maxConversations, Len(sortedConversations)))]

\* mutant: the most recent of the kept conversations makes room for the current one
optimizeStorageForSpace_DropsNewest(storage) ==
    LET sortedConversations == SortByRecency(storage.conversations)
        currentConvId == storage.currentConversationId
        kept == SubSeq(sortedConversations, 1,
                       Min(maxConversations, Len(sortedConversations)))
        idx == FindIndex(storage.conversations, currentConvId)
        optimizedConversations ==
            IF currentConvId # Null /\ FindIndex(kept, currentConvId) = 0 /\ idx # 0
            THEN Tail(kept) \o <<storage.conversations[idx]>>
            ELSE kept
    IN [storage EXCEPT !.conversations = optimizedConversations]

optimizeStorageForSpace(storage) ==
    LET sortedConversations == SortByRecency(storage.conversations)
        currentConvId == storage.currentConversationId
        kept == SubSeq(sortedConversations, 1,
                       Min(maxConversations, Len(sortedConversations)))
        idx == FindIndex(storage.conversations, currentConvId)
        optimizedConversations ==
            IF currentConvId # Null /\ FindIndex(kept, currentConvId) = 0 /\ idx # 0
            THEN SubSeq(kept, 1, Len(kept) - 1) \o <<storage.conversations[idx]>>
            ELSE kept
    IN [storage EXCEPT !.conversations = optimizedConversations]

(***************************************************************************)
(* Behaviour of the two storage backends during one call.                  *)
(*   lr, sr : getItem + JSON.parse of localStorage / sessionStorage        *)
(*   probe  : estimatedSize > availableSpace ("toosmall"), or not ("fits": *)
(*            also when getAvailableStorageSpace() returns null)           *)
(*   w1     : localStorage.setItem of the full document                    *)
(*   w2     : localStorage.setItem of the pruned document                  *)
(*   sw     : sessionStorage.setItem                                       *)
(***************************************************************************)
LoadEnvs == [lr : {"ok", "throws"}, sr : {"ok", "throws"}]
SaveEnvs == [probe : {"fits", "toosmall"},
             w1 : {"ok", "quota", "security", "other"},
             w2 : {"ok", "fail"},
             sw : {"ok", "fail"}]

\* mutant: the fallback reports a plain success, without the warning text
fallbackToSessionStorage_Silent(storage, l, s, e) ==
    IF e.sw = "ok"
    THEN [ls |-> l, ss |-> <<JSONStringify(storage)>>, success |-> TRUE, error |-> NoText]
    ELSE [ls |-> l, ss |-> s, success |-> FALSE,
          error |-> "Unable to save conversation history"]

fallbackToSessionStorage(storage, l, s, e) ==
    IF e.sw = "ok"
    THEN [ls |-> l, ss |-> <<JSONStringify(storage)>>, success |-> TRUE,
          error |-> "Using session storage (data will not persist after browser close)"]
    ELSE [ls |-> l, ss |-> s, success |-> FALSE,
          error |-> "Unable to save conversation history"]

saveChatStorage(storage, l, s, e) ==
    LET optimizedStorage == optimizeStorageForSpace(storage)
        wroteLocal(st) == [ls |-> <<JSONStringify(st)>>, ss |-> s,
                           success |-> TRUE, error |-> NoText]
    IN
    IF e.probe = "toosmall"
    THEN IF e.w2 = "ok" THEN wroteLocal(optimizedStorage)
         ELSE fallbackToSessionStorage(optimizedStorage, l, s, e)
    ELSE IF e.w1 = "ok" THEN wroteLocal(storage)
    ELSE IF e.w1 = "quota"
         THEN IF e.w2 = "ok" THEN wroteLocal(optimizedStorage)
              ELSE fallbackToSessionStorage(optimizedStorage, l, s, e)
    ELSE IF e.w1 = "security"
         THEN [ls |-> l, ss |-> s, success |-> FALSE,
               error |-> "Storage access denied (private browsing mode)"]
    ELSE fallbackToSessionStorage(storage, l, s, e)

\* mutant: sessionStorage is tried before localStorage
getChatStorageWithFallback_SessionFirst(l, s, e) ==
    IF e.sr = "ok" /\ s # <<>>
    THEN [storage |-> Rehydrate(s[1]), source |-> "sessionStorage",
          warning |-> "Conversation history loaded from session storage (temporary)"]
    ELSE IF e.lr = "ok" /\ l # <<>>
    THEN [storage |-> Rehydrate(l[1]), source |-> "localStorage", warning |-> NoText]
    ELSE [storage |-> getDefaultChatStorage, source |-> "default",
          warning |-> "Unable to load conversation history"]

getChatStorageWithFallback(l, s, e) ==
    IF e.lr = "ok" /\ l # <<>>
    THEN [storage |-> Rehydrate(l[1]), source |-> "localStorage", warning |-> NoText]
    ELSE IF e.sr = "ok" /\ s # <<>>
    THEN [storage |-> Rehydrate(s[1]), source |-> "sessionStorage",
          warning |-> "Conversation history loaded from session storage (temporary)"]
    ELSE [storage |-> getDefaultChatStorage, source |-> "default",
          warning |-> "Unable to load conversation history"]

getChatStorage(l, s, e) == getChatStorageWithFallback(l, s, e).storage

\* the backend behaviour a save went through, reduced to the calls it made
SavePath(e) ==
    IF e.probe = "toosmall"
    THEN [e EXCEPT !.w1 = "-", !.sw = IF e.w2 = "ok" THEN "-" ELSE e.sw]
    ELSE IF e.w1 = "quota"
    THEN [e EXCEPT !.sw = IF e.w2 = "ok" THEN "-" ELSE e.sw]
    ELSE IF e.w1 = "other" THEN [e EXCEPT !.w2 = "-"]
    ELSE [e EXCEPT !.w2 = "-", !.sw = "-"]

NoSave == [probe |-> "-", w1 |-> "-", w2 |-> "-", sw |-> "-"]

(***************************************************************************)
(* Store operations as functions of the backends' contents (l, s), the     *)
(* clock t, the id counters and the backends' behaviour (le, se).          *)
(***************************************************************************)
\* mutant: the message is put in front of the conversation's messages
addMessageToConversation_Prepends(l, s, conversationId, message, t, le, se) ==
    LET storage == getChatStorage(l, s, le)
        conversationIndex == FindIndex(storage.conversations, conversationId)
    IN
    IF conversationIndex > 0
    THEN LET updated == [storage EXCEPT
                 !.conversations[conversationIndex].messages = <<message>> \o @,
                 !.conversations[conversationIndex].updatedAt = t]
             saveResult == saveChatStorage(updated, l, s, se)
         IN [ls |-> saveResult.ls, ss |-> saveResult.ss,
             success |-> saveResult.success, warning |-> saveResult.error,
             path |-> SavePath(se)]
    ELSE [ls |-> l, ss |-> s, success |-> FALSE,
          warning |-> "Conversation not found", path |-> NoSave]

addMessageToConversation(l, s, conversationId, message, t, le, se) ==
    LET storage == getChatStorage(l, s, le)
        conversationIndex == FindIndex(storage.conversations, conversationId)
    IN
    IF conversationIndex > 0
    THEN LET updated == [storage EXCEPT
                 !.conversations[conversationIndex].messages = Append(@, message),
                 !.conversations[conversationIndex].updatedAt = t]
             saveResult == saveChatStorage(updated, l, s, se)
         IN [ls |-> saveResult.ls, ss |-> saveResult.ss,
             success |-> saveResult.success, warning |-> saveResult.error,
             path |-> SavePath(se)]
    ELSE [ls |-> l, ss |-> s, success |-> FALSE,
          warning |-> "Conversation not found", path |-> NoSave]

getCurrentConversation(l, s, newId, t, le, se) ==
    LET result == getChatStorageWithFallback(l, s, le)
        storage == result.storage
        idx == IF storage.currentConversationId # Null
               THEN FindIndex(storage.conversations, storage.currentConversationId)
               ELSE 0
    IN
    IF idx > 0
    THEN [ls |-> l, ss |-> s, conversation |-> storage.conversations[idx],
          warning |-> result.warning, created |-> FALSE, path |-> NoSave]
    ELSE LET newConversation == createConversation(newId, t)
             updated == [storage EXCEPT
                 !.conversations = Append(@, newConversation),
                 !.currentConversationId = newConversation.id]
             saveResult == saveChatStorage(updated, l, s, se)
         IN [ls |-> saveResult.ls, ss |-> saveResult.ss,
             conversation |-> newConversation,
             warning |-> IF saveResult.error # NoText THEN saveResult.error
                         ELSE result.warning,
             created |-> TRUE, path |-> SavePath(se)]

clearChatHistory(l, s, se, removeOk) ==
    LET result == saveChatStorage(getDefaultChatStorage, l, s, se)
    IN [ls |-> result.ls,
        ss |-> IF result.success /\ removeOk THEN <<>> ELSE result.ss,
        success |-> result.success, error |-> result.error, path |-> SavePath(se)]

createNewConversation(l, s, newId, t, le, se) ==
    LET storage == getChatStorage(l, s, le)
        newConversation == createConversation(newId, t)
        updated == [storage EXCEPT
            !.conversations = Append(@, newConversation),
            !.currentConversationId = newConversation.id]
        saveResult == saveChatStorage(updated, l, s, se)
    IN [ls |-> saveResult.ls, ss |-> saveResult.ss, conversation |-> newConversation,
        success |-> saveResult.success, warning |-> saveResult.error,
        path |-> SavePath(se)]

switchToConversation(l, s, conversationId, le, se) ==
    LET storage == getChatStorage(l, s, le)
        idx == FindIndex(storage.conversations, conversationId)
    IN
    IF idx = 0
    THEN [ls |-> l, ss |-> s, success |-> FALSE,
          warning |-> "Conversation not found", path |-> NoSave]
    ELSE LET updated == [storage EXCEPT !.currentConversationId = conversationId]
             saveResult == saveChatStorage(updated, l, s, se)
         IN [ls |-> saveResult.ls, ss |-> saveResult.ss,
             success |-> saveResult.success, warning |-> saveResult.error,
             path |-> SavePath(se)]

\* conversations.splice(index, 1)
Splice(convs, index) ==
    SubSeq(convs, 1, index - 1) \o SubSeq(convs, index + 1, Len(convs))

deleteConversation(l, s, conversationId, newId, t, le, se) ==
    LET storage == getChatStorage(l, s, le)
        conversationIndex == FindIndex(storage.conversations, conversationId)
    IN
    IF conversationIndex = 0
    THEN [ls |-> l, ss |-> s, success |-> FALSE,
          warning |-> "Conversation not found", created |-> FALSE, path |-> NoSave]
    ELSE LET remaining == Splice(storage.conversations, conversationIndex)
             wasCurrent == storage.currentConversationId = conversationId
             orderedConversations == SortByRecency(remaining)
             newConv == createConversation(newId, t)
             updated ==
                 IF ~wasCurrent
                 THEN [storage EXCEPT !.conversations = remaining]
                 ELSE IF Len(remaining) > 0
                 THEN [storage EXCEPT
                         !.conversations = orderedConversations,
                         !.currentConversationId = orderedConversations[1].id]
                 ELSE [storage EXCEPT
                         !.conversations = <<newConv>>,
                         !.currentConversationId = newConv.id]
             saveResult == saveChatStorage(updated, l, s, se)
         IN [ls |-> saveResult.ls, ss |-> saveResult.ss,
             success |-> saveResult.success, warning |-> saveResult.error,
             created |-> wasCurrent /\ Len(remaining) = 0, path |-> SavePath(se)]

(***************************************************************************)
(* Message validation.  A string is a sequence of runs [cls, n]: n         *)
(* characters of class cls.                                                *)
(*   space    : what String.prototype.trim strips and \s matches           *)
(*   invisible: format characters outside \s (U+200B ZERO WIDTH SPACE)     *)
(*   punct    : punctuation and symbols of the Basic Multilingual Plane    *)
(*   astral   : characters outside the BMP (emoji): two UTF-16 code units  *)
(*   latin    : a-z A-Z        digit : 0-9       accented: U+00C0..U+017F  *)
(*   thai     : U+0E00..U+0E7F                   cjk     : U+4E00..U+9FFF  *)
(***************************************************************************)
\* VALIDATION_CONFIG
MIN_MESSAGE_LENGTH == 1
MAX_MESSAGE_LENGTH == 4000
ALLOW_ONLY_WHITESPACE == FALSE
REQUIRE_MEANINGFUL_CONTENT == TRUE

CharClasses == {"space", "invisible", "punct", "astral",
                "latin", "digit", "accented", "thai", "cjk"}

RunLengths == {1, 2, MAX_MESSAGE_LENGTH - 2, MAX_MESSAGE_LENGTH - 1, MAX_MESSAGE_LENGTH}

Strings == UNION {[1..k -> [cls : CharClasses, n : RunLengths]] : k \in 0..MaxRuns}

\* the values a caller can pass: strings, and values of other types
StringInput(s) == [type |-> "string", repr |-> "string", value |-> s]
NonStringInputs ==
    {[type |-> "object", repr |-> "null", value |-> <<>>],
     [type |-> "undefined", repr |-> "undefined", value |-> <<>>],
     [type |-> "number", repr |-> "0", value |-> <<>>],
     [type |-> "number", repr |-> "42", value |-> <<>>],
     [type |-> "boolean", repr |-> "false", value |-> <<>>],
     [type |-> "boolean", repr |-> "true", value |-> <<>>],
     [type |-> "object", repr |-> "{}", value |-> <<>>],
     [type |-> "object", repr |-> "[]", value |-> <<>>]}
ValidationInputs == {StringInput(s) : s \in Strings} \cup NonStringInputs

\* UTF-16 code units of one character
CodeUnits(cls) == IF cls = "astral" THEN 2 ELSE 1

\* String.prototype.length
RECURSIVE Length(_)
Length(s) ==
    IF s = <<>> THEN 0 ELSE Head(s).n * CodeUnits(Head(s).cls) + Length(Tail(s))

\* String.prototype.trim
RECURSIVE TrimStart(_)
TrimStart(s) ==
    IF s = <<>> THEN s
    ELSE IF Head(s).cls = "space" THEN TrimStart(Tail(s)) ELSE s

RECURSIVE TrimEnd(_)
TrimEnd(s) ==
    IF s = <<>> THEN s
    ELSE IF s[Len(s)].cls = "space" THEN TrimEnd(SubSeq(s, 1, Len(s) - 1)) ELSE s

Trim(s) == TrimEnd(TrimStart(s))

\* !input
Falsy(in) ==
    IF in.type = "string" THEN Length(in.value) = 0
    ELSE in.repr \in {"null", "undefined", "0", "false"}

\* /^\s*$/.test(s)
whitespaceOnlyRegex(s) == \A i \in 1..Len(s) : s[i].cls = "space"

\* mutant: the Thai range is missing from the character class
meaningfulContentRegex_NoThai(s) ==
    \E i \in 1..Len(s) : s[i].cls \in {"latin", "digit", "accented", "cjk"}

\* /[a-zA-Z0-9\u00C0-\u017F\u0E00-\u0E7F\u4e00-\u9fff]/.test(s)
meaningfulContentRegex(s) ==
    \E i \in 1..Len(s) : s[i].cls \in {"latin", "digit", "accented", "thai", "cjk"}

\* mutant: the check for meaningful content is left out
validateMessageInput_NoContentCheck(in) ==
    IF Falsy(in) \/ in.type # "string" THEN FALSE
    ELSE Length(Trim(in.value)) > 0

validateMessageInput(in) ==
    IF Falsy(in) \/ in.type # "string" THEN FALSE
    ELSE LET trimmedInput == Trim(in.value) IN
         IF Length(trimmedInput) = 0 THEN FALSE
         ELSE IF Length(trimmedInput) < MIN_MESSAGE_LENGTH THEN FALSE
         ELSE IF Length(in.value) > MAX_MESSAGE_LENGTH THEN FALSE
         ELSE IF ~ALLOW_ONLY_WHITESPACE /\ whitespaceOnlyRegex(in.value) THEN FALSE
         ELSE IF REQUIRE_MEANINGFUL_CONTENT /\ ~meaningfulContentRegex(trimmedInput)
              THEN FALSE
         ELSE TRUE

(***************************************************************************)
(* Retry executor.  An error is [cls, name, statusCode, message]; message  *)
(* is the set of the keywords ('timeout', 'fetch', 'network') its text     *)
(* includes.                                                               *)
(***************************************************************************)
\* ERROR_HANDLING_CONFIG.maxRetries
maxRetries == 3

NetworkError(message) ==
    [cls |-> "NetworkError", name |-> "NetworkError", statusCode |-> 0,
     message |-> message]
APIError(message, statusCode) ==
    [cls |-> "APIError", name |-> "APIError", statusCode |-> statusCode,
     message |-> message]
ValidationError(message) ==
    [cls |-> "ValidationError", name |-> "ValidationError", statusCode |-> 0,
     message |-> message]
PlainError(name, message) ==
    [cls |-> "Error", name |-> name, statusCode |-> 0, message |-> message]

\* let lastError: Error (not assigned yet)
NoError == [cls |-> "none", name |-> "none", statusCode |-> 0, message |-> {}]

\* new NetworkError('No network connectivity')
OfflineError == NetworkError({"network"})

retryableStatusCodes == {408, 429, 500, 502, 503, 504}

\* the errors an operation fails with
Errors ==
    {OfflineError, NetworkError({})}
    \cup {APIError({}, c) : c \in retryableStatusCodes \cup {400, 401}}
    \cup {APIError({"timeout"}, 400)}
    \cup {ValidationError({}), ValidationError({"network"})}
    \cup {PlainError("Error", {}), PlainError("Error", {"timeout"}),
          PlainError("TimeoutError", {}), PlainError("TypeError", {"fetch"})}

isRetryableError(e) ==
    IF e.cls = "NetworkError" THEN TRUE
    ELSE IF e.cls = "APIError" THEN e.statusCode \in retryableStatusCodes
    ELSE IF e.name = "TimeoutError" \/ "timeout" \in e.message THEN TRUE
    ELSE IF "fetch" \in e.message \/ "network" \in e.message THEN TRUE
    ELSE FALSE

\* mutant: a retryable error is retried however many attempts were made
AfterError_NoLimit(e, count, max) ==
    IF ~isRetryableError(e) THEN "thrown" ELSE "backoff"

\* mutant: every error is retried while attempts remain
AfterError_RetriesAll(e, count, max) ==
    IF count > max THEN "thrown" ELSE "backoff"

\* the catch block, after retryCount++: leave the loop, or wait and go round again
AfterError(e, count, max) ==
    IF count > max THEN "thrown"
    ELSE IF ~isRetryableError(e) THEN "thrown"
    ELSE "backoff"

\* the operations passed: fail `failures` times with `error`, then succeed; or
\* fail with `error` at every call
Operations ==
    {[error |-> e, failures |-> k, always |-> FALSE] : e \in Errors, k \in 0..MaxFailures}
    \cup {[error |-> e, failures |-> 0, always |-> TRUE] : e \in Errors}

\* whether the k-th call of the operation rejects
Rejects(op, k) == op.always \/ k <= op.failures

(***************************************************************************)
(* The response stream of /api/chat.  The bytes are modelled as a sequence *)
(* of tokens: the prefix "0", ":", then the JSON text of                   *)
(* {type: 'text-delta', textDelta} as an opening token, the text and a     *)
(* closing token, then the line feed.  A cut inside the text leaves two    *)
(* incomplete JSON texts, as a cut next to it does.                        *)
(***************************************************************************)
StreamTexts == {"Hi", " there", ""}

\* `0:${JSON.stringify({ type: 'text-delta', textDelta: chunk })}\n`
Payload(chunk) == <<"0", ":", "{", chunk, "}", "\n">>

RECURSIVE ResponseBody(_)
\* what the ReadableStream of the route enqueues, one payload after the other
ResponseBody(chunks) ==
    IF chunks = <<>> THEN <<>> ELSE Payload(Head(chunks)) \o ResponseBody(Tail(chunks))

RECURSIVE Split(_)
\* chunk.split('\n')
Split(chunk) ==
    IF \E i \in 1..Len(chunk) : chunk[i] = "\n"
    THEN LET k == CHOOSE i \in 1..Len(chunk) :
                    /\ chunk[i] = "\n"
                    /\ \A j \in 1..(i - 1) : chunk[j] # "\n"
         IN <<SubSeq(chunk, 1, k - 1)>> \o Split(SubSeq(chunk, k + 1, Len(chunk)))
    ELSE <<chunk>>

\* line.startsWith('0:')
StartsWithPrefix(line) == Len(line) >= 2 /\ line[1] = "0" /\ line[2] = ":"

\* JSON.parse(line.slice(2)): the textDelta of a complete JSON text, or a throw
ParseLine(line) ==
    LET text == SubSeq(line, 3, Len(line)) IN
    IF Len(text) = 3 /\ text[1] = "{" /\ text[2] \in StreamTexts /\ text[3] = "}"
    THEN [thrown |-> FALSE, textDelta |-> text[2]]
    ELSE [thrown |-> TRUE, textDelta |-> ""]

\* the body of `for (const line of lines)`: parsing errors are ignored
AddDelta(content, line) ==
    IF StartsWithPrefix(line) /\ ~ParseLine(line).thrown /\ ParseLine(line).textDelta # ""
    THEN content \o ParseLine(line).textDelta
    ELSE content

RECURSIVE AddLines(_, _)
AddLines(content, lines) ==
    IF lines = <<>> THEN content
    ELSE AddLines(AddDelta(content, Head(lines)), Tail(lines))

(***************************************************************************)
(* Product consultation.  A message is the role and what its text holds of *)
(* the things extractProductInfo looks for: a skin-type word, a number or  *)
(* the words for "not over", and the skin-concern words.                   *)
(***************************************************************************)
SkinWords == {"dry"}
BudgetWords == {"300", "notOver"}
ConcernWords == {"acne"}

Said(role, skin, amount, concerns, text) ==
    [role |-> role, skin |-> skin, budget |-> amount, concerns |-> concerns,
     text |-> text]

\* what a user types: any combination of the three kinds of information, or none
UserMessages ==
    {Said("user", skin, amount, concerns, "typed") :
        skin \in SkinWords \cup {""}, amount \in BudgetWords \cup {""},
        concerns \in SUBSET ConcernWords}

\* productQuestions: the texts of the skin-type and the concern question hold
\* skin-type and concern words themselves
Question(key) ==
    IF key = "skinType" THEN Said("assistant", "dry", "", {}, "skinType?")
    ELSE IF key = "budget" THEN Said("assistant", "", "", {}, "budget?")
    ELSE Said("assistant", "", "", {"acne"}, "concern?")

\* extractedInfo: {} (a key that is not set reads undefined)
NoInfo == [skinType |-> NoText, budget |-> NoText, otherNeeds |-> {}, concern |-> NoText]

\* the object extractProductInfo returns, its missing keys undefined
extractProductInfo(message) ==
    [skinType |-> IF message.skin = "" THEN NoText ELSE message.skin,
     budget |-> IF message.budget = "" THEN NoText
                ELSE IF message.budget = "notOver" THEN "budget_constrained"
                ELSE message.budget,
     otherNeeds |-> message.concerns,
     concern |-> NoText]

\* { ...extractedInfo, ...info }
Spread(extractedInfo, info) ==
    [skinType |-> IF info.skinType # NoText THEN info.skinType ELSE extractedInfo.skinType,
     budget |-> IF info.budget # NoText THEN info.budget ELSE extractedInfo.budget,
     otherNeeds |-> IF info.otherNeeds # {} THEN info.otherNeeds
                    ELSE extractedInfo.otherNeeds,
     concern |-> IF info.concern # NoText THEN info.concern ELSE extractedInfo.concern]

\* the first key of questionPriority whose value is falsy, or null
getNextQuestion(extractedInfo) ==
    IF extractedInfo.skinType = NoText THEN "skinType"
    ELSE IF extractedInfo.budget = NoText THEN "budget"
    ELSE IF extractedInfo.concern = NoText THEN "concern"
    ELSE "null"

generateRecommendation(info) ==
    Said("assistant", "", "", {}, "recommendation")

generateConversationalResponse(userMessage, extractedInfo) ==
    LET info == Spread(extractedInfo, extractProductInfo(userMessage))
        nextQuestion == getNextQuestion(info)
    IN IF nextQuestion # "null" THEN Question(nextQuestion)
       ELSE generateRecommendation(info)

RECURSIVE ExtractAll(_, _)
\* for (const msg of allUserMessages)
ExtractAll(extractedInfo, msgs) ==
    IF msgs = <<>> THEN extractedInfo
    ELSE ExtractAll(Spread(extractedInfo, extractProductInfo(Head(msgs))), Tail(msgs))

processConversationalMessage(userMessage, conversationHistory) ==
    LET allUserMessages ==
            Append(SelectSeq(conversationHistory, LAMBDA m : m.role = "user"), userMessage)
    IN generateConversationalResponse(userMessage, ExtractAll(NoInfo, allUserMessages))

(***************************************************************************)
(* Offline send queue.                                                     *)
(***************************************************************************)
QueuedContents == {"a", "b"}

\* mutant: nothing is pushed
queueMessageForRetry_Drops(queue, id, content, t) == queue

queueMessageForRetry(queue, id, content, t) ==
    Append(queue, [id |-> id, content |-> content, timestamp |-> t, retryCount |-> 0])

getQueuedMessages(queue) == queue

\* mutant: a failed message is queued again whatever its retry count
Requeue_Always(queue, message) ==
    Append(queue, [message EXCEPT !.retryCount = @ + 1])

\* the catch block of processQueuedMessages' callback
Requeue(queue, message) ==
    IF message.retryCount < maxRetries
    THEN Append(queue, [message EXCEPT !.retryCount = @ + 1])
    ELSE queue

\* mutant: Promise.all, which rejects with the first rejection
allSettled_FailFast(outcome) ==
    IF \E i \in 1..Len(outcome) : outcome[i] = "rejected"
    THEN <<"rejected">>
    ELSE outcome

\* Promise.allSettled: one result per promise, in order
allSettled(outcome) == outcome

Settled(outcome) == \A i \in 1..Len(outcome) : outcome[i] # "pending"

\* mutant: the queue is left as it is when the copy has been taken
ClearedQueue_Keeps(queue) == queue

\* messageQueue = [], in the statement after the copy
ClearedQueue(queue) == <<>>

\* an invocation of processQueuedMessages at its return: the copy of the queue it
\* took, and one pending send per copied message
StartDrain(queue, p) ==
    LET msgs == getQueuedMessages(queue) IN
    [messages |-> msgs,
     started |-> 1..Len(msgs),
     outcome |-> [i \in 1..Len(msgs) |-> "pending"],
     returned |-> FALSE,
     results |-> <<>>,
     pushesAtStart |-> p]

(***************************************************************************)
(* Connectivity monitor.  A listener is the function an effect passed to   *)
(* addConnectivityListener: the component that created it, and the queued  *)
(* count its closure captured.                                             *)
(***************************************************************************)
Listener(id, owner, count) == [id |-> id, owner |-> owner, queuedCount |-> count]

\* connectivityListeners.forEach(listener => listener(isOnline))
Notify(listeners, online) ==
    [i \in 1..Len(listeners) |-> [listener |-> listeners[i], online |-> online]]

\* mutant: the listeners are notified without comparing with the state before
updateOnlineStatus_AlwaysNotifies(st, nav, listeners) ==
    [isOnline |-> nav, calls |-> st.calls \o Notify(listeners, nav)]

\* one handler updateOnlineStatus, run with navigator.onLine = nav
updateOnlineStatus(st, nav, listeners) ==
    LET wasOnline == st.isOnline IN
    [isOnline |-> nav,
     calls |-> IF wasOnline # nav THEN st.calls \o Notify(listeners, nav) ELSE st.calls]

\* the browser dispatches an online/offline event to the k handlers that k calls of
\* initializeNetworkMonitoring have added
RECURSIVE DispatchEvent(_, _, _, _)
DispatchEvent(k, st, nav, listeners) ==
    IF k = 0 THEN st
    ELSE DispatchEvent(k - 1, updateOnlineStatus(st, nav, listeners), nav, listeners)

\* what a health probe may end with: response.ok, a response that is not ok, or a
\* rejected fetch (network failure, 5 second timeout)
ProbeOutcomes == {"ok", "notOk", "throws"}

\* checkNetworkHealth, from the settling of its fetch
checkNetworkHealth(online, outcome, listeners) ==
    LET wasOnline == online
        newOnline == outcome = "ok"
    IN [isOnline |-> newOnline,
        calls |-> IF wasOnline # newOnline THEN Notify(listeners, newOnline) ELSE <<>>]

addConnectivityListener(listeners, listener) == Append(listeners, listener)

\* the cleanup function addConnectivityListener returned for listener
RemoveListener(listeners, listener) == SelectSeq(listeners, LAMBDA l : l # listener)

\* the listener the mount effect of the chat page adds calls
\* handleProcessQueuedMessages when (online && queuedMessageCount > 0)
PageListenerDrains(cs) ==
    \E i \in 1..Len(cs) :
        /\ cs[i].listener.owner = "ChatPage"
        /\ cs[i].online
        /\ cs[i].listener.queuedCount > 0

(***************************************************************************)
(* Redemption route.  A code is a sequence of characters.                  *)
(***************************************************************************)
\* usedBy: undefined
NoUser == ""

LineIds == {"U1", "U2"}

\* String.prototype.toUpperCase
ToUpperCase(s) ==
    [i \in 1..Len(s) |-> CASE s[i] = "a" -> "A"
                           [] s[i] = "b" -> "B"
                           [] OTHER -> s[i]]

\* String.prototype.trim
RECURSIVE TrimCode(_)
TrimCode(s) ==
    IF s = <<>> THEN s
    ELSE IF Head(s) = " " THEN TrimCode(Tail(s))
    ELSE IF s[Len(s)] = " " THEN TrimCode(SubSeq(s, 1, Len(s) - 1))
    ELSE s

\* the documents of collection Code when the requests arrive
CodeDocuments ==
    (<<"A">> :> [points |-> 10, usedBy |-> NoUser])
    @@ (<<"B">> :> [points |-> 5, usedBy |-> NoUser])
    @@ (<<"Z">> :> [points |-> 0, usedBy |-> NoUser])

\* the request bodies: a lineId (or none) and a code as typed
BodyLineIds == LineIds \cup {""}
BodyCodes == {<<" ", "a">>, <<"B">>, <<"Z">>, <<"X">>}

IdleRequest ==
    [pc |-> "idle", lineId |-> "", cleanCode |-> <<>>, points |-> 0,
     userDoc |-> 0, totalPoints |-> 0, status |-> 0]

(***************************************************************************)
(* Chat page.                                                              *)
(***************************************************************************)
\* error: null
NoChatError == "null"

\* the texts a user types, and the characters they are made of
TypedTexts == {"", " ", "?!", " hi "}
Chars(text) ==
    CASE text = "" -> <<>>
      [] text = " " -> <<[cls |-> "space", n |-> 1]>>
      [] text = "?!" -> <<[cls |-> "punct", n |-> 2]>>
      [] text = " hi " -> <<[cls |-> "space", n |-> 1], [cls |-> "latin", n |-> 2],
                            [cls |-> "space", n |-> 1]>>

\* the replies the chat endpoint streams, as the text-deltas of their chunks
Replies == {<<"Hi", " there">>, <<>>}

\* the errors sendMessageToAPI rejects with once the request has been made
SendErrors == {"NetworkError: Network request failed", "APIError", "Error: Request timeout"}

QueuedNotice == "Your message has been queued and will be sent when connection is restored."

\* mutant: the catch block leaves the field as handleSubmit cleared it
RestoreInput_Cleared(text) == ""

\* setInput(currentInput) of the catch block: what the field holds afterwards
RestoreInput(text) == text

\* conversation.messages.map(msg => ({id, role, content, createdAt}))
UiMessages(msgs) == [i \in 1..Len(msgs) |-> [role |-> msgs[i].role, content |-> msgs[i].content]]

(***************************************************************************)
(* Idle values: what the variables of a component hold while another       *)
(* component is being exercised.                                           *)
(***************************************************************************)
StoreIdle ==
    /\ ls = <<>>
    /\ ss = <<>>
    /\ now = 0
    /\ convCount = 0
    /\ msgCount = 0
    /\ faults = 0
    /\ budget = 0
    /\ appended = [c \in ConvIds |-> <<>>]
    /\ res = [op |-> "init", success |-> TRUE, warning |-> NoText, source |-> "-"]

ValidIdle ==
    /\ vInput = [type |-> "undefined", repr |-> "undefined", value |-> <<>>]
    /\ vDone = FALSE
    /\ vResult = FALSE

MonitorIdle ==
    /\ navigatorOnLine = isOnline
    /\ connectivityListeners = <<>>
    /\ monitors = 0
    /\ registered = 0
    /\ calls = <<>>

NetIdle == isOnline = TRUE /\ MonitorIdle

RetryIdle ==
    /\ operation = [error |-> NoError, failures |-> 0, always |-> FALSE]
    /\ configMaxRetries = maxRetries
    /\ rPc = "idle"
    /\ retryCount = 0
    /\ rCalls = 0
    /\ rWaits = 0
    /\ rFastFails = 0
    /\ lastError = NoError

QueueIdle ==
    /\ messageQueue = <<>>
    /\ drains = <<>>
    /\ queued = 0
    /\ pushes = 0

RedeemIdle ==
    /\ Code = CodeDocuments
    /\ Point = <<>>
    /\ User = <<>>
    /\ reqs = [r \in 1..MaxRequests |-> IdleRequest]

ChatIdle ==
    /\ isInitialized = FALSE
    /\ currentConversation = Null
    /\ messages = <<>>
    /\ input = ""
    /\ isLoading = FALSE
    /\ error = NoChatError
    /\ fetchCalls = 0
    /\ chatPc = "idle"
    /\ currentInput = ""
    /\ submits = 0
    /\ retries = 0
    /\ sendConversation = Null
    /\ deltas = <<>>
    /\ assistantContent = ""
    /\ streamIndex = 0
    /\ textStream = <<>>
    /\ body = <<>>
    /\ consultation = <<>>
    /\ response = NoText

nonValidVars == <<storeVars, netVars, retryVars, queueVars, redeemVars, chatVars>>
nonRetryVars == <<storeVars, validVars, queueVars, redeemVars, chatVars>>
nonQueueVars == <<storeVars, validVars, netVars, retryVars, redeemVars, chatVars>>
nonRedeemVars == <<storeVars, validVars, netVars, retryVars, queueVars, chatVars>>

(***************************************************************************)
(* SpecStore: up to MaxSteps store calls in any order, on a browser that   *)
(* holds no history or the history of an earlier session, under any        *)
(* behaviour of the two backends.                                          *)
(***************************************************************************)
\* both backends work and have room
NominalLoad == [lr |-> "ok", sr |-> "ok"]
NominalSave == [probe |-> "fits", w1 |-> "ok", w2 |-> "-", sw |-> "-"]

\* the behaviours one call may meet: any, until MaxFaults calls have met a fault
LoadEnvsNow == IF faults < MaxFaults THEN LoadEnvs ELSE {NominalLoad}
SavePaths == {SavePath(e) : e \in SaveEnvs}
SaveEnvsNow == IF faults < MaxFaults THEN SavePaths ELSE {NominalSave}
RemoveNow == IF faults < MaxFaults THEN BOOLEAN ELSE {TRUE}

Faulty(le, path) == le # NominalLoad \/ path \notin {NominalSave, NoSave}

Result(op, success, warning, source) ==
    [op |-> op, success |-> success, warning |-> warning, source |-> source]

\* what an earlier session can have left in localStorage: one conversation more
\* than pruning keeps, created one after the other, the oldest one current
EarlierSession ==
    [conversations |->
        [i \in 1..EarlierConvs |-> createConversation(i, i - EarlierConvs - 1)],
     currentConversationId |-> 1,
     settings |-> "light-medium"]

\* generateId() for the next conversation
NewConvId == EarlierConvs + convCount + 1

StoredIds(b) ==
    IF b = <<>> THEN {}
    ELSE {b[1].conversations[i].id : i \in 1..Len(b[1].conversations)}

\* the conversation ids a caller passes for a stored document: the current one, the
\* first and the last of the list
PickedIds(b) ==
    IF b = <<>> \/ b[1].conversations = <<>> THEN {}
    ELSE LET convs == b[1].conversations IN
         {convs[1].id, convs[Len(convs)].id}
         \cup (StoredIds(b) \cap {b[1].currentConversationId})

\* the ids a caller passes: those, and one that no conversation has
TargetIds == PickedIds(ls) \cup PickedIds(ss) \cup {NewConvId}

StoreInit ==
    /\ \/ ls = <<>> /\ budget = MaxSteps
       \/ ls = <<JSONStringify(EarlierSession)>> /\ budget = MaxStepsAfter
    /\ ss = <<>>
    /\ now = 0
    /\ convCount = 0
    /\ msgCount = 0
    /\ faults = 0
    /\ appended = [c \in ConvIds |-> <<>>]
    /\ res = Result("init", TRUE, NoText, "-")
    /\ ValidIdle /\ NetIdle /\ RetryIdle /\ QueueIdle /\ RedeemIdle /\ ChatIdle

\* one more store call, during which the backends behaved as (le, path, removed)
Called(le, path, removed) ==
    /\ budget' = budget - 1
    /\ faults' = IF Faulty(le, path) \/ ~removed THEN faults + 1 ELSE faults

\* time passes between two calls
Tick ==
    /\ now < MaxTime
    /\ now' = now + 1
    /\ UNCHANGED <<ls, ss, convCount, msgCount, faults, budget, appended, res>>
    /\ UNCHANGED nonStoreVars

\* getChatStorageWithFallback called on its own (a page load)
Load ==
    /\ budget > 0
    /\ \E le \in LoadEnvsNow :
        LET r == getChatStorageWithFallback(ls, ss, le) IN
        /\ Called(le, NoSave, TRUE)
        /\ res' = Result("load", TRUE, r.warning, r.source)
        /\ UNCHANGED <<ls, ss, now, convCount, msgCount, appended>>
        /\ UNCHANGED nonStoreVars

GetCurrentConversation ==
    /\ budget > 0
    /\ \E le \in LoadEnvsNow, se \in SaveEnvsNow :
        LET r == getCurrentConversation(ls, ss, NewConvId, now, le, se) IN
        /\ Called(le, r.path, TRUE)
        /\ ls' = r.ls
        /\ ss' = r.ss
        /\ convCount' = IF r.created THEN convCount + 1 ELSE convCount
        /\ res' = Result("getCurrent", TRUE, r.warning, "-")
        /\ UNCHANGED <<now, msgCount, appended>>
        /\ UNCHANGED nonStoreVars

CreateNewConversation ==
    /\ budget > 0
    /\ \E le \in LoadEnvsNow, se \in SaveEnvsNow :
        LET r == createNewConversation(ls, ss, NewConvId, now, le, se) IN
        /\ Called(le, r.path, TRUE)
        /\ ls' = r.ls
        /\ ss' = r.ss
        /\ convCount' = convCount + 1
        /\ res' = Result("create", r.success, r.warning, "-")
        /\ UNCHANGED <<now, msgCount, appended>>
        /\ UNCHANGED nonStoreVars

SwitchToConversation ==
    /\ budget > 0
    /\ \E id \in TargetIds, le \in LoadEnvsNow, se \in SaveEnvsNow :
        LET r == switchToConversation(ls, ss, id, le, se) IN
        /\ Called(le, r.path, TRUE)
        /\ ls' = r.ls
        /\ ss' = r.ss
        /\ res' = Result("switch", r.success, r.warning, "-")
        /\ UNCHANGED <<now, convCount, msgCount, appended>>
        /\ UNCHANGED nonStoreVars

DeleteConversation ==
    /\ budget > 0
    /\ \E id \in TargetIds, le \in LoadEnvsNow, se \in SaveEnvsNow :
        LET r == deleteConversation(ls, ss, id, NewConvId, now, le, se) IN
        /\ Called(le, r.path, TRUE)
        /\ ls' = r.ls
        /\ ss' = r.ss
        /\ convCount' = IF r.created THEN convCount + 1 ELSE convCount
        /\ res' = Result("delete", r.success, r.warning, "-")
        /\ UNCHANGED <<now, msgCount, appended>>
        /\ UNCHANGED nonStoreVars

AddMessageToConversation ==
    /\ budget > 0
    /\ \E id \in TargetIds, in \in MessageInputs, le \in LoadEnvsNow, se \in SaveEnvsNow :
        LET message == createMessage(msgCount + 1, in[1], in[2], now)
            r == addMessageToConversation(ls, ss, id, message, now, le, se)
        IN
        /\ Called(le, r.path, TRUE)
        /\ ls' = r.ls
        /\ ss' = r.ss
        /\ msgCount' = msgCount + 1
        /\ appended' = IF r.success
                       THEN [appended EXCEPT ![id] = Append(@, message)]
                       ELSE appended
        /\ res' = Result("add", r.success, r.warning, "-")
        /\ UNCHANGED <<now, convCount>>
        /\ UNCHANGED nonStoreVars

ClearChatHistory ==
    /\ budget > 0
    /\ \E se \in SaveEnvsNow, removeOk \in RemoveNow :
        LET r == clearChatHistory(ls, ss, se, removeOk) IN
        /\ Called(NominalLoad, r.path, removeOk \/ ~r.success)
        /\ ls' = r.ls
        /\ ss' = r.ss
        /\ res' = Result("clear", r.success, r.error, "-")
        /\ UNCHANGED <<now, convCount, msgCount, appended>>
        /\ UNCHANGED nonStoreVars

StoreNext ==
    \/ Tick
    \/ Load
    \/ GetCurrentConversation
    \/ CreateNewConversation
    \/ SwitchToConversation
    \/ DeleteConversation
    \/ AddMessageToConversation
    \/ ClearChatHistory

SpecStore == StoreInit /\ [][StoreNext]_vars
(***************************************************************************)
(* SpecValid: validateMessageInput applied to one value.                   *)
(***************************************************************************)
ValidInit ==
    /\ vInput \in ValidationInputs
    /\ vDone = FALSE
    /\ vResult = FALSE
    /\ StoreIdle /\ NetIdle /\ RetryIdle /\ QueueIdle /\ RedeemIdle /\ ChatIdle

Validate ==
    /\ ~vDone
    /\ vDone' = TRUE
    /\ vResult' = validateMessageInput(vInput)
    /\ UNCHANGED vInput
    /\ UNCHANGED nonValidVars

ValidNext == Validate

SpecValid == ValidInit /\ [][ValidNext]_vars

(***************************************************************************)
(* Connectivity monitor: the browser's online/offline events, and the      *)
(* health probes.                                                          *)
(***************************************************************************)
\* the monitor's state after the handlers have run with result r, and what the
\* listeners they called have done: the listener of NetworkStatus calls
\* handleProcessQueue, whose try block is empty
Notified(r) ==
    /\ isOnline' = r.isOnline
    /\ calls' = r.calls
    /\ IF PageListenerDrains(r.calls)
       THEN /\ drains' = Append(drains, StartDrain(messageQueue, pushes))
            /\ messageQueue' = ClearedQueue(messageQueue)
       ELSE UNCHANGED <<messageQueue, drains>>
    /\ UNCHANGED <<connectivityListeners, monitors, registered, queued, pushes>>
    /\ UNCHANGED <<storeVars, validVars, retryVars, redeemVars, chatVars>>

\* the browser changes navigator.onLine and fires 'online' or 'offline'
UpdateOnlineStatus ==
    /\ navigatorOnLine' = ~navigatorOnLine
    /\ Notified(DispatchEvent(monitors, [isOnline |-> isOnline, calls |-> <<>>],
                              ~navigatorOnLine, connectivityListeners))

\* the fetch of a health probe settles
CheckNetworkHealth ==
    /\ monitors > 0
    /\ \E outcome \in ProbeOutcomes :
        Notified(checkNetworkHealth(isOnline, outcome, connectivityListeners))
    /\ UNCHANGED navigatorOnLine

(***************************************************************************)
(* SpecNet: the monitor is initialised up to MaxMonitors times, listeners  *)
(* are added and removed, the browser goes online and offline and health   *)
(* probes settle, in any order.                                            *)
(***************************************************************************)
NetInit ==
    /\ navigatorOnLine \in BOOLEAN
    /\ isOnline = navigatorOnLine
    /\ connectivityListeners = <<>>
    /\ monitors = 0
    /\ registered = 0
    /\ calls = <<>>
    /\ StoreIdle /\ ValidIdle /\ RetryIdle /\ QueueIdle /\ RedeemIdle /\ ChatIdle

nonNetVars == <<storeVars, validVars, retryVars, queueVars, redeemVars, chatVars>>

InitializeNetworkMonitoring ==
    /\ monitors < MaxMonitors
    /\ monitors' = monitors + 1
    /\ calls' = <<>>
    /\ UNCHANGED <<isOnline, navigatorOnLine, connectivityListeners, registered>>
    /\ UNCHANGED nonNetVars

AddConnectivityListener ==
    /\ registered < MaxListeners
    /\ connectivityListeners' = addConnectivityListener(connectivityListeners,
                                     Listener(registered + 1, "caller", 0))
    /\ registered' = registered + 1
    /\ calls' = <<>>
    /\ UNCHANGED <<isOnline, navigatorOnLine, monitors>>
    /\ UNCHANGED nonNetVars

\* a caller invokes the cleanup function of a listener that is registered
Cleanup ==
    /\ \E i \in 1..Len(connectivityListeners) :
        connectivityListeners' = RemoveListener(connectivityListeners,
                                                connectivityListeners[i])
    /\ calls' = <<>>
    /\ UNCHANGED <<isOnline, navigatorOnLine, monitors, registered>>
    /\ UNCHANGED nonNetVars

NetNext ==
    \/ InitializeNetworkMonitoring
    \/ AddConnectivityListener
    \/ Cleanup
    \/ UpdateOnlineStatus
    \/ CheckNetworkHealth

SpecNet == NetInit /\ [][NetNext]_vars

(***************************************************************************)
(* SpecRetry: one run of retryWithBackoff(operation, {maxRetries}), while  *)
(* the connectivity changes at any time.                                   *)
(***************************************************************************)
RetryInit ==
    /\ operation \in Operations
    /\ configMaxRetries \in 0..MaxRetryOption
    /\ isOnline \in BOOLEAN
    /\ navigatorOnLine = isOnline
    /\ connectivityListeners = <<>>
    /\ monitors = 1
    /\ registered = 0
    /\ calls = <<>>
    /\ rPc = "try"
    /\ retryCount = 0
    /\ rCalls = 0
    /\ rWaits = 0
    /\ rFastFails = 0
    /\ lastError = NoError
    /\ StoreIdle /\ ValidIdle /\ QueueIdle /\ RedeemIdle /\ ChatIdle

\* the catch block of the loop, entered with the error e
Caught(e) ==
    LET next == AfterError(e, retryCount + 1, configMaxRetries) IN
    /\ lastError' = e
    /\ retryCount' = retryCount + 1
    /\ rPc' = next
    /\ rWaits' = IF next = "backoff" THEN rWaits + 1 ELSE rWaits

\* one pass through the try block
Attempt ==
    /\ rPc = "try"
    /\ retryCount <= configMaxRetries
    /\ IF ~isOnline
       THEN /\ Caught(OfflineError)
            /\ rFastFails' = rFastFails + 1
            /\ UNCHANGED rCalls
       ELSE /\ rCalls' = rCalls + 1
            /\ UNCHANGED rFastFails
            /\ IF Rejects(operation, rCalls + 1)
               THEN Caught(operation.error)
               ELSE /\ rPc' = "returned"
                    /\ UNCHANGED <<retryCount, rWaits, lastError>>
    /\ UNCHANGED <<operation, configMaxRetries, netVars>>
    /\ UNCHANGED nonRetryVars

\* the timer of the backoff wait fires
BackoffElapses ==
    /\ rPc = "backoff"
    /\ rPc' = "try"
    /\ UNCHANGED <<operation, configMaxRetries, retryCount, rCalls, rWaits,
                   rFastFails, lastError, netVars>>
    /\ UNCHANGED nonRetryVars

RetryNext ==
    \/ Attempt
    \/ BackoffElapses
    \/ UpdateOnlineStatus

SpecRetry == RetryInit /\ [][RetryNext]_vars

\* the run is not suspended for ever: a settled operation resumes the loop, and the
\* timer of a backoff wait fires
SpecRetryFair == SpecRetry /\ WF_vars(Attempt) /\ WF_vars(BackoffElapses)

(***************************************************************************)
(* SpecQueue: messages are queued and the queue is drained, by up to       *)
(* MaxDrains invocations of processQueuedMessages that may overlap, with a *)
(* send function that fulfils or rejects each call.                        *)
(***************************************************************************)
QueueInit ==
    /\ messageQueue = <<>>
    /\ drains = <<>>
    /\ queued = 0
    /\ pushes = 0
    /\ StoreIdle /\ ValidIdle /\ NetIdle /\ RetryIdle /\ RedeemIdle /\ ChatIdle

QueueMessageForRetry ==
    /\ queued < MaxQueued
    /\ \E content \in QueuedContents :
        messageQueue' = queueMessageForRetry(messageQueue, queued + 1, content, now)
    /\ queued' = queued + 1
    /\ pushes' = pushes + 1
    /\ UNCHANGED drains
    /\ UNCHANGED nonQueueVars

\* processQueuedMessages up to its return: the queue is copied and emptied, and
\* messages.map calls the send function for every copied message
ProcessQueuedMessages ==
    /\ Len(drains) < MaxDrains
    /\ drains' = Append(drains, StartDrain(messageQueue, pushes))
    /\ messageQueue' = ClearedQueue(messageQueue)
    /\ UNCHANGED <<queued, pushes>>
    /\ UNCHANGED nonQueueVars

\* the send function fulfils for message i of drain d
SendFulfils ==
    /\ \E d \in 1..Len(drains) : \E i \in drains[d].started :
        /\ drains[d].outcome[i] = "pending"
        /\ drains' = [drains EXCEPT ![d].outcome[i] = "fulfilled"]
    /\ UNCHANGED <<messageQueue, queued, pushes>>
    /\ UNCHANGED nonQueueVars

\* the send function rejects for message i of drain d: the catch block runs
SendRejects ==
    /\ \E d \in 1..Len(drains) : \E i \in drains[d].started :
        /\ drains[d].outcome[i] = "pending"
        /\ drains' = [drains EXCEPT ![d].outcome[i] = "rejected"]
        /\ messageQueue' = Requeue(messageQueue, drains[d].messages[i])
        /\ pushes' = IF drains[d].messages[i].retryCount < maxRetries
                     THEN pushes + 1 ELSE pushes
    /\ UNCHANGED queued
    /\ UNCHANGED nonQueueVars

\* the promise processQueuedMessages returned resolves
DrainSettles ==
    /\ \E d \in 1..Len(drains) :
        /\ ~drains[d].returned
        /\ Settled(drains[d].outcome)
        /\ drains' = [drains EXCEPT ![d].returned = TRUE,
                                    ![d].results = allSettled(drains[d].outcome)]
    /\ UNCHANGED <<messageQueue, queued, pushes>>
    /\ UNCHANGED nonQueueVars

QueueNext ==
    \/ QueueMessageForRetry
    \/ ProcessQueuedMessages
    \/ SendFulfils
    \/ SendRejects
    \/ DrainSettles

SpecQueue == QueueInit /\ [][QueueNext]_vars

(***************************************************************************)
(* SpecLife: the life of queued messages over up to MaxLifeDrains          *)
(* invocations of processQueuedMessages that follow one another (each is   *)
(* called when the sends of the one before have settled), while time       *)
(* passes and messages are queued at any moment.                           *)
(***************************************************************************)
\* queueMessageForRetry; the content plays no part in a message's life
LifeQueueMessage ==
    /\ queued < MaxQueued
    /\ messageQueue' = queueMessageForRetry(messageQueue, queued + 1, "a", now)
    /\ queued' = queued + 1
    /\ pushes' = pushes + 1
    /\ UNCHANGED drains
    /\ UNCHANGED nonQueueVars

LifeProcessQueuedMessages ==
    /\ Len(drains) < MaxLifeDrains
    /\ \A d \in 1..Len(drains) : drains[d].returned
    /\ messageQueue # <<>>
    /\ drains' = Append(drains, StartDrain(messageQueue, pushes))
    /\ messageQueue' = ClearedQueue(messageQueue)
    /\ UNCHANGED <<queued, pushes>>
    /\ UNCHANGED nonQueueVars

LifeNext ==
    \/ Tick
    \/ LifeQueueMessage
    \/ LifeProcessQueuedMessages
    \/ SendFulfils
    \/ SendRejects
    \/ DrainSettles

SpecLife == QueueInit /\ [][LifeNext]_vars

(***************************************************************************)
(* SpecStream: the stream loop of sendMessageToAPI reads one response of   *)
(* up to MaxDeltas text chunks, which reader.read() hands over in pieces   *)
(* of any size.                                                            *)
(***************************************************************************)
StreamInit ==
    /\ ChatIdle
    /\ StoreIdle /\ ValidIdle /\ NetIdle /\ RetryIdle /\ QueueIdle /\ RedeemIdle

streamFrame == <<isInitialized, currentConversation, messages, input, isLoading, error,
                 fetchCalls, currentInput, submits, retries, sendConversation, deltas,
                 streamIndex, consultation, response>>
nonChatVars == <<storeVars, validVars, netVars, retryVars, queueVars, redeemVars>>

StreamReplies == UNION {[1..n -> StreamTexts] : n \in 0..MaxDeltas}

\* the route answers: the stream loop starts with let assistantContent = ''
ResponseStreams ==
    /\ chatPc = "idle"
    /\ \E chunks \in StreamReplies :
        /\ textStream' = chunks
        /\ body' = ResponseBody(chunks)
    /\ assistantContent' = ""
    /\ chatPc' = "streaming"
    /\ UNCHANGED streamFrame
    /\ UNCHANGED nonChatVars

\* reader.read() yields the next n bytes; the lines of the chunk are processed
ReadChunk ==
    /\ chatPc = "streaming"
    /\ \E n \in 1..Len(body) :
        /\ assistantContent' = AddLines(assistantContent, Split(SubSeq(body, 1, n)))
        /\ body' = SubSeq(body, n + 1, Len(body))
    /\ UNCHANGED <<chatPc, textStream>>
    /\ UNCHANGED streamFrame
    /\ UNCHANGED nonChatVars

\* reader.read() yields done: return assistantContent
ReaderDone ==
    /\ chatPc = "streaming"
    /\ body = <<>>
    /\ chatPc' = "returned"
    /\ UNCHANGED <<assistantContent, textStream, body>>
    /\ UNCHANGED streamFrame
    /\ UNCHANGED nonChatVars

StreamNext ==
    \/ ResponseStreams
    \/ ReadChunk
    \/ ReaderDone

SpecStream == StreamInit /\ [][StreamNext]_vars

(***************************************************************************)
(* SpecDialog: a product consultation of up to MaxTurns user messages,     *)
(* each answered by the route with processConversationalMessage.           *)
(***************************************************************************)
DialogInit ==
    /\ ChatIdle
    /\ StoreIdle /\ ValidIdle /\ NetIdle /\ RetryIdle /\ QueueIdle /\ RedeemIdle

UserTurns(msgs) == Len(SelectSeq(msgs, LAMBDA m : m.role = "user"))

\* the user sends a message: the page posts the conversation with it, the route
\* answers with the response to the last message, and the page shows the answer
Consult ==
    /\ UserTurns(consultation) < MaxTurns
    /\ \E userMessage \in UserMessages :
        LET posted == Append(consultation, userMessage)
            answer == processConversationalMessage(userMessage, posted)
        IN /\ response' = answer
           /\ consultation' = Append(posted, answer)
    /\ UNCHANGED <<isInitialized, currentConversation, messages, input, isLoading, error,
                   fetchCalls, chatPc, currentInput, submits, retries, sendConversation,
                   deltas, assistantContent, streamIndex, textStream, body>>
    /\ UNCHANGED nonChatVars

DialogNext == Consult

SpecDialog == DialogInit /\ [][DialogNext]_vars

(***************************************************************************)
(* SpecRedeem: up to MaxRequests POST /api/redeem requests served          *)
(* concurrently; a request gives way to the others at each await.          *)
(***************************************************************************)
RedeemInit ==
    /\ Code = CodeDocuments
    /\ Point = <<>>
    /\ User = <<>>
    /\ reqs = [r \in 1..MaxRequests |-> IdleRequest]
    /\ StoreIdle /\ ValidIdle /\ NetIdle /\ RetryIdle /\ QueueIdle /\ ChatIdle

Respond(r, status) == [reqs EXCEPT ![r].pc = "done", ![r].status = status]

\* a request arrives: the body is parsed and checked, the code is cleaned
Post ==
    /\ \E r \in 1..MaxRequests :
        /\ reqs[r].pc = "idle"
        /\ \A q \in 1..(r - 1) : reqs[q].pc # "idle"
        /\ \E lineId \in BodyLineIds, code \in BodyCodes :
            reqs' = IF lineId = "" \/ code = <<>>
                    THEN Respond(r, 400)
                    ELSE [reqs EXCEPT ![r].pc = "codeQuery",
                                      ![r].lineId = lineId,
                                      ![r].cleanCode = ToUpperCase(TrimCode(code))]
    /\ UNCHANGED <<Code, Point, User>>
    /\ UNCHANGED nonRedeemVars

\* the query on collection Code returns, and the document is checked
CodeQuery ==
    /\ \E r \in 1..MaxRequests :
        /\ reqs[r].pc = "codeQuery"
        /\ LET cleanCode == reqs[r].cleanCode IN
           reqs' = IF cleanCode \notin DOMAIN Code THEN Respond(r, 400)
                   ELSE IF Code[cleanCode].usedBy # NoUser THEN Respond(r, 400)
                   ELSE IF Code[cleanCode].points <= 0 THEN Respond(r, 500)
                   ELSE [reqs EXCEPT ![r].pc = "userQuery",
                                     ![r].points = Code[cleanCode].points]
    /\ UNCHANGED <<Code, Point, User>>
    /\ UNCHANGED nonRedeemVars

\* the query on collection User returns: a document of the lineId, or none
UserQuery ==
    /\ \E r \in 1..MaxRequests :
        /\ reqs[r].pc = "userQuery"
        /\ LET found == {i \in 1..Len(User) : User[i].lineId = reqs[r].lineId} IN
           IF found = {}
           THEN reqs' = [reqs EXCEPT ![r].pc = "commit", ![r].userDoc = 0]
           ELSE \E i \in found :
                reqs' = [reqs EXCEPT ![r].pc = "commit", ![r].userDoc = i,
                                     ![r].totalPoints = User[i].totalPoints]
    /\ UNCHANGED <<Code, Point, User>>
    /\ UNCHANGED nonRedeemVars

\* batch.commit() applies the three writes at once
Commit ==
    /\ \E r \in 1..MaxRequests :
        /\ reqs[r].pc = "commit"
        /\ LET q == reqs[r] IN
           /\ Point' = Append(Point, [lineId |-> q.lineId, points |-> q.points,
                                      code |-> q.cleanCode])
           /\ User' = IF q.userDoc > 0
                      THEN [User EXCEPT ![q.userDoc].totalPoints = q.totalPoints + q.points]
                      ELSE Append(User, [lineId |-> q.lineId, totalPoints |-> q.points])
           /\ Code' = [Code EXCEPT ![q.cleanCode].usedBy = q.lineId]
           /\ reqs' = Respond(r, 200)
    /\ UNCHANGED nonRedeemVars

\* batch.commit() throws: nothing is written
CommitFails ==
    /\ \E r \in 1..MaxRequests :
        /\ reqs[r].pc = "commit"
        /\ reqs' = Respond(r, 500)
    /\ UNCHANGED <<Code, Point, User>>
    /\ UNCHANGED nonRedeemVars

RedeemNext ==
    \/ Post
    \/ CodeQuery
    \/ UserQuery
    \/ Commit
    \/ CommitFails

SpecRedeem == RedeemInit /\ [][RedeemNext]_vars

(***************************************************************************)
(* SpecChat: the chat page from its first render: texts are typed and      *)
(* submitted, replies are streamed or sends fail, failed sends are         *)
(* retried, conversations are created and switched to, the connectivity    *)
(* changes.  Both storage backends work.                                   *)
(***************************************************************************)
ChatInit ==
    /\ ChatIdle
    /\ isOnline \in BOOLEAN
    /\ MonitorIdle
    /\ StoreIdle /\ ValidIdle /\ RetryIdle /\ QueueIdle /\ RedeemIdle

chatFrame == <<now, faults, budget, appended, res, validVars, retryVars, redeemVars,
               drains, isOnline, navigatorOnLine, textStream, body, consultation, response>>

\* a step of the page: no listener is invoked
NoCalls == calls' = <<>> /\ UNCHANGED chatFrame

\* the locals of the handleSubmit in flight and of its sendMessageToAPI
sendVars == <<fetchCalls, chatPc, currentInput, sendConversation, deltas,
              assistantContent, streamIndex>>

listenerVars == <<connectivityListeners, monitors, registered>>

\* the first effects: NetworkStatus adds its listener; the page initialises the
\* monitor, adds its listener and loads the current conversation
Mount ==
    /\ ~isInitialized
    /\ monitors' = monitors + 1
    /\ connectivityListeners' =
           addConnectivityListener(
               addConnectivityListener(connectivityListeners,
                                       Listener(registered + 1, "NetworkStatus", 0)),
               Listener(registered + 2, "ChatPage", 0))
    /\ registered' = registered + 2
    /\ LET r == getCurrentConversation(ls, ss, NewConvId, now, NominalLoad, NominalSave) IN
        /\ ls' = r.ls
        /\ ss' = r.ss
        /\ convCount' = IF r.created THEN convCount + 1 ELSE convCount
        /\ currentConversation' = r.conversation.id
        /\ messages' = UiMessages(r.conversation.messages)
    /\ isInitialized' = TRUE
    /\ UNCHANGED <<msgCount, messageQueue, queued, pushes, input, isLoading, error,
                   submits, retries, sendVars>>
    /\ NoCalls

\* the render that follows setIsInitialized(true): the mount effect's dependencies
\* have changed, so its cleanup runs, and its body does nothing any more
MountCleanup ==
    /\ isInitialized
    /\ \E i \in 1..Len(connectivityListeners) :
        /\ connectivityListeners[i].owner = "ChatPage"
        /\ connectivityListeners' = RemoveListener(connectivityListeners,
                                                   connectivityListeners[i])
    /\ UNCHANGED <<monitors, registered, ls, ss, convCount, msgCount, messageQueue,
                   queued, pushes, isInitialized, currentConversation, messages, input,
                   isLoading, error, submits, retries, sendVars>>
    /\ NoCalls

\* NetworkStatus: the interval finds another queue length, and the effect that
\* depends on queuedCount replaces its listener
QueuedCountInterval ==
    /\ isInitialized
    /\ \E i \in 1..Len(connectivityListeners) :
        /\ connectivityListeners[i].owner = "NetworkStatus"
        /\ connectivityListeners[i].queuedCount # Len(getQueuedMessages(messageQueue))
        /\ connectivityListeners' =
               addConnectivityListener(
                   RemoveListener(connectivityListeners, connectivityListeners[i]),
                   Listener(registered + 1, "NetworkStatus",
                            Len(getQueuedMessages(messageQueue))))
    /\ registered' = registered + 1
    /\ UNCHANGED <<monitors, ls, ss, convCount, msgCount, messageQueue,
                   queued, pushes, isInitialized, currentConversation, messages, input,
                   isLoading, error, submits, retries, sendVars>>
    /\ NoCalls

HandleInputChange ==
    /\ isInitialized
    /\ \E value \in TypedTexts \ {input} : input' = value
    /\ UNCHANGED <<ls, ss, convCount, msgCount, messageQueue, queued, pushes,
                   isInitialized, currentConversation, messages, isLoading, error,
                   submits, retries, sendVars, listenerVars>>
    /\ NoCalls

\* handleSubmit, up to its return or to the await of the network reply; retry tells
\* that handleRetry has called it, after setError(null)
Submit(retry) ==
    /\ submits' = submits + 1
    /\ IF ~validateMessageInput(StringInput(Chars(input))) \/ currentConversation = Null
       THEN /\ error' = IF retry THEN NoChatError ELSE error
            /\ UNCHANGED <<ls, ss, msgCount, messageQueue, queued, pushes, messages, input,
                           isLoading, sendVars>>
       ELSE LET userChatMessage == createMessage(msgCount + 1, "user", input, now)
                saveResult == addMessageToConversation(ls, ss, currentConversation,
                                  userChatMessage, now, NominalLoad, NominalSave)
                shown == Append(messages, [role |-> "user", content |-> input])
            IN
            /\ ls' = saveResult.ls
            /\ ss' = saveResult.ss
            /\ msgCount' = msgCount + 1
            /\ input' = ""
            /\ error' = NoChatError
            /\ IF ~isOnline
               THEN \* sendMessageToAPI queues the text and throws; the catch block
                    \* shows the notice and returns; finally
                    /\ messageQueue' = queueMessageForRetry(messageQueue, queued + 1,
                                                            input, now)
                    /\ queued' = queued + 1
                    /\ pushes' = pushes + 1
                    /\ messages' = Append(shown, [role |-> "assistant",
                                                  content |-> QueuedNotice])
                    /\ isLoading' = FALSE
                    /\ UNCHANGED sendVars
               ELSE \* enhancedFetch makes the request
                    /\ messages' = shown
                    /\ isLoading' = TRUE
                    /\ fetchCalls' = fetchCalls + 1
                    /\ chatPc' = "sending"
                    /\ currentInput' = input
                    /\ sendConversation' = currentConversation
                    /\ UNCHANGED <<messageQueue, queued, pushes, deltas, assistantContent,
                                   streamIndex>>
    /\ UNCHANGED <<convCount, isInitialized, currentConversation, listenerVars>>
    /\ NoCalls

\* ChatInput calls onSubmit unless a send is in flight
HandleSubmit ==
    /\ isInitialized
    /\ ~isLoading
    /\ submits < MaxSubmits
    /\ Submit(FALSE)
    /\ UNCHANGED retries

HandleRetry ==
    /\ isInitialized
    /\ submits < MaxSubmits
    /\ error # NoChatError
    /\ Trim(Chars(input)) # <<>>
    /\ retries' = retries + 1
    /\ Submit(TRUE)

\* enhancedFetch resolves with the response: the assistant message of the stream is
\* displayed, empty
ResponseArrives ==
    /\ chatPc = "sending"
    /\ \E reply \in Replies : deltas' = reply
    /\ assistantContent' = ""
    /\ messages' = Append(messages, [role |-> "assistant", content |-> ""])
    /\ streamIndex' = Len(messages) + 1
    /\ chatPc' = "streaming"
    /\ UNCHANGED <<ls, ss, convCount, msgCount, messageQueue, queued, pushes,
                   isInitialized, currentConversation, input, isLoading, error,
                   fetchCalls, currentInput, sendConversation, submits, retries,
                   listenerVars>>
    /\ NoCalls

\* reader.read() yields a chunk with one text-delta
ReadDelta ==
    /\ chatPc = "streaming"
    /\ deltas # <<>>
    /\ assistantContent' = assistantContent \o Head(deltas)
    /\ deltas' = Tail(deltas)
    /\ messages' = IF streamIndex > 0
                   THEN [messages EXCEPT ![streamIndex].content =
                                             assistantContent \o Head(deltas)]
                   ELSE messages
    /\ UNCHANGED <<ls, ss, convCount, msgCount, messageQueue, queued, pushes,
                   isInitialized, currentConversation, input, isLoading, error,
                   fetchCalls, chatPc, currentInput, sendConversation, streamIndex,
                   submits, retries, listenerVars>>
    /\ NoCalls

\* reader.read() yields done: sendMessageToAPI returns assistantContent; the rest of
\* the try block of handleSubmit, and finally
StreamEnds ==
    /\ chatPc = "streaming"
    /\ deltas = <<>>
    /\ LET aiChatMessage == createMessage(msgCount + 1, "assistant", assistantContent, now)
           aiSaveResult == addMessageToConversation(ls, ss, sendConversation,
                               aiChatMessage, now, NominalLoad, NominalSave)
       IN
        /\ ls' = aiSaveResult.ls
        /\ ss' = aiSaveResult.ss
        /\ msgCount' = msgCount + 1
    /\ isLoading' = FALSE
    /\ chatPc' = "idle"
    /\ streamIndex' = 0
    /\ UNCHANGED <<convCount, messageQueue, queued, pushes, isInitialized,
                   currentConversation, messages, input, error, fetchCalls, currentInput,
                   sendConversation, deltas, assistantContent, submits, retries,
                   listenerVars>>
    /\ NoCalls

\* enhancedFetch or reader.read() rejects: the catch block of handleSubmit, and
\* finally
SendFails ==
    /\ chatPc \in {"sending", "streaming"}
    /\ \E err \in SendErrors : error' = err
    /\ input' = RestoreInput(currentInput)
    /\ isLoading' = FALSE
    /\ chatPc' = "idle"
    /\ deltas' = <<>>
    /\ assistantContent' = ""
    /\ streamIndex' = 0
    /\ UNCHANGED <<ls, ss, convCount, msgCount, messageQueue, queued, pushes,
                   isInitialized, currentConversation, messages, fetchCalls,
                   currentInput, sendConversation, submits, retries, listenerVars>>
    /\ NoCalls

\* handleConversationChange(conversation)
ConversationChange(conversation) ==
    /\ currentConversation' = conversation.id
    /\ messages' = UiMessages(conversation.messages)
    /\ error' = NoChatError
    /\ streamIndex' = 0
    /\ UNCHANGED <<msgCount, messageQueue, queued, pushes, isInitialized, input,
                   isLoading, fetchCalls, chatPc, currentInput, sendConversation,
                   deltas, assistantContent, submits, retries, listenerVars>>
    /\ NoCalls

\* ConversationManager: New Conversation
HandleNewConversation ==
    /\ isInitialized
    /\ convCount < MaxCreated
    /\ LET result == createNewConversation(ls, ss, NewConvId, now, NominalLoad,
                                           NominalSave) IN
        /\ ls' = result.ls
        /\ ss' = result.ss
        /\ convCount' = convCount + 1
        /\ ConversationChange(result.conversation)

\* ConversationManager: a conversation of the list is picked
HandleSwitchConversation ==
    /\ isInitialized
    /\ \E conversationId \in StoredIds(ls) :
        LET result == switchToConversation(ls, ss, conversationId, NominalLoad,
                                           NominalSave)
            storage == getChatStorage(result.ls, result.ss, NominalLoad)
        IN
        /\ ls' = result.ls
        /\ ss' = result.ss
        /\ ConversationChange(
               storage.conversations[FindIndex(storage.conversations, conversationId)])
    /\ UNCHANGED convCount

ChatNext ==
    \/ Mount
    \/ MountCleanup
    \/ QueuedCountInterval
    \/ HandleInputChange
    \/ HandleSubmit
    \/ HandleRetry
    \/ ResponseArrives
    \/ ReadDelta
    \/ StreamEnds
    \/ SendFails
    \/ HandleNewConversation
    \/ HandleSwitchConversation
    \/ UpdateOnlineStatus

SpecChat == ChatInit /\ [][ChatNext]_vars

\* the steps no user takes: effects and timers of the page, and the network
ChatAutomatic ==
    \/ Mount
    \/ MountCleanup
    \/ QueuedCountInterval
    \/ ResponseArrives
    \/ ReadDelta
    \/ StreamEnds

\* the effects run, the timers fire and every response stream is read to its end
SpecChatFair == SpecChat /\ WF_vars(ChatAutomatic)

(***************************************************************************)
(* Properties of the conversation store (checked under SpecStore).         *)
(***************************************************************************)
SessionSaveWarning == "Using session storage (data will not persist after browser close)"
SessionLoadWarning == "Conversation history loaded from session storage (temporary)"
SavingOps == {"create", "switch", "delete", "add", "clear"}

\* what a reload returns when both backends can be read
Reloaded == getChatStorageWithFallback(ls, ss, NominalLoad).storage

\* the stores the operations hand to saveChatStorage in the current state: the
\* empty default (clearChatHistory), what they loaded, and that plus a new conversation
StoresToSave ==
    LET loaded == {getChatStorage(ls, ss, le) : le \in LoadEnvs} IN
    {getDefaultChatStorage} \cup loaded \cup
    {[st EXCEPT !.conversations = Append(@, createConversation(NewConvId, now)),
                !.currentConversationId = NewConvId] : st \in loaded}

\* C1: every conversation a reload returns holds exactly the messages whose append
\* to it reported success (through localStorage, after pruning, or through the
\* sessionStorage fallback), in the order of the appends and with equal content.
C1_AppendedMessagesSurviveReload ==
    \A i \in 1..Len(Reloaded.conversations) :
        Reloaded.conversations[i].messages = appended[Reloaded.conversations[i].id]

\* C2: whenever saveChatStorage(s) reports success, the next load returns a store
\* equal to s (conversation ids and order, currentConversationId, messages,
\* timestamps to the millisecond).
C2_SaveLoadRoundTrip ==
    \A st \in StoresToSave, e \in SaveEnvs :
        LET r == saveChatStorage(st, ls, ss, e) IN
        r.success => getChatStorageWithFallback(r.ls, r.ss, NominalLoad).storage = st

\* the backend behaviours that differ in the calls a save makes, and the one in which
\* localStorage denies access while sessionStorage would fail too
SaveCases ==
    SavePaths \cup {[probe |-> "fits", w1 |-> "security", w2 |-> "-", sw |-> "fail"]}

\* C3: saveChatStorage, by backend behaviour: a capacity failure of localStorage
\* (also of the pruned retry) with a working sessionStorage gives success with a
\* non-empty warning; failure of both backends gives success = false with an error
\* text; success without a warning only when the document went to localStorage.
\* The recorded results of the operations that save agree with this.
C3_SaveOutcomeByBackend ==
    /\ \A st \in StoresToSave, e \in SaveCases :
        LET r == saveChatStorage(st, ls, ss, e)
            capacityFailure ==
                \/ e.probe = "toosmall" /\ e.w2 = "fail"
                \/ e.probe = "fits" /\ e.w1 = "quota" /\ e.w2 = "fail"
            localFailure == capacityFailure \/ (e.probe = "fits" /\ e.w1 \in {"security", "other"})
        IN
        /\ (capacityFailure /\ e.sw = "ok") =>
              /\ r.success /\ r.error # NoText
              /\ r.ss = <<JSONStringify(optimizeStorageForSpace(st))>>
        /\ (localFailure /\ e.sw = "fail") =>
              /\ ~r.success /\ r.error # NoText
              /\ r.ls = ls /\ r.ss = ss
        /\ (r.success /\ r.error = NoText) =>
              r.ls \in {<<JSONStringify(st)>>, <<JSONStringify(optimizeStorageForSpace(st))>>}
    /\ res.op \in SavingOps =>
        /\ (res.success /\ res.warning = NoText) => ls # <<>>
        /\ (res.success /\ res.warning # NoText) =>
              /\ res.warning = SessionSaveWarning
              /\ res.op # "clear" => ss # <<>>
        /\ ~res.success => res.warning # NoText

\* witness of C3: an operation has saved through the sessionStorage fallback
C3_Witness ==
    /\ res.op = "add"
    /\ res.success
    /\ res.warning = SessionSaveWarning
    /\ ss # <<>>

\* C4: a load tries localStorage, then sessionStorage, then the empty default:
\* source 'localStorage' without warning when localStorage holds a readable document,
\* source 'sessionStorage' with the session-storage warning when it does not and
\* sessionStorage does, else the default store with the 'Unable to load' warning.
C4_LoadOrder ==
    /\ \A le \in LoadEnvs :
        LET r == getChatStorageWithFallback(ls, ss, le)
            localReadable == le.lr = "ok" /\ ls # <<>>
            sessionReadable == le.sr = "ok" /\ ss # <<>>
        IN
        /\ localReadable =>
              r.source = "localStorage" /\ r.warning = NoText
              /\ r.storage = Rehydrate(ls[1])
        /\ (~localReadable /\ sessionReadable) =>
              r.source = "sessionStorage" /\ r.warning = SessionLoadWarning
              /\ r.storage = Rehydrate(ss[1])
        /\ (~localReadable /\ ~sessionReadable) =>
              r.source = "default" /\ r.warning = "Unable to load conversation history"
              /\ r.storage.conversations = <<>>
              /\ r.storage.currentConversationId = Null
    /\ res.op = "load" =>
        /\ res.source = "localStorage" => ls # <<>> /\ res.warning = NoText
        /\ res.source = "sessionStorage" => ss # <<>> /\ res.warning = SessionLoadWarning
        /\ (ls = <<>> /\ ss = <<>>) => res.source = "default"

\* witness of C4: localStorage holds nothing and a load has been answered by the
\* document a fallback save left in sessionStorage
C4_Witness ==
    /\ res.op = "load"
    /\ res.source = "sessionStorage"
    /\ res.warning = SessionLoadWarning
    /\ ls = <<>>
    /\ ss # <<>>

\* a persisted document whose currentConversationId is null or resolves, and whose
\* conversation ids are pairwise distinct
WellFormed(b) ==
    b # <<>> =>
        LET convs == b[1].conversations IN
        /\ \/ b[1].currentConversationId = Null
           \/ \E i \in 1..Len(convs) : convs[i].id = b[1].currentConversationId
        /\ \A i, j \in 1..Len(convs) : convs[i].id = convs[j].id => i = j

\* C5: after any sequence of store operations, with pruning on capacity failure, the
\* persisted currentConversationId is null or the id of a persisted conversation,
\* and the persisted conversation ids are pairwise distinct.
C5_PersistedStoreWellFormed == WellFormed(ls) /\ WellFormed(ss)

\* witness of C5: pruning has cut the list to maxConversations and put the current
\* conversation, the least recently updated one, back into it
C5_Witness ==
    /\ ls # <<>>
    /\ Len(ls[1].conversations) = maxConversations
    /\ ls[1].currentConversationId = 1
    /\ StoredIds(ls) = (1..EarlierConvs) \ {2}

\* the stores optimizeStorageForSpace is given: what a store operation has loaded,
\* with any stored conversation, none, or one that is not stored, as the current one
PruneInputs ==
    {[Reloaded EXCEPT !.currentConversationId = cur] :
        cur \in StoredIds(ls) \cup StoredIds(ss) \cup {Null, NewConvId}}

Range(seq) == {seq[i] : i \in 1..Len(seq)}

\* C25: optimizeStorageForSpace returns a store with at most maxConversations
\* conversations, each one a conversation of the input with its messages as they
\* were; they are the most recently updated ones, except that the current
\* conversation is kept whenever the input has it, in the place of the least
\* recently updated of them; currentConversationId and settings are unchanged.
C25_PruningKeepsRecentAndCurrent ==
    \A storage \in PruneInputs :
        LET out == optimizeStorageForSpace(storage)
            in == Range(storage.conversations)
            kept == Range(out.conversations)
            cur == storage.currentConversationId
        IN  /\ Len(out.conversations) = Min(maxConversations, Len(storage.conversations))
            /\ Cardinality(kept) = Len(out.conversations)
            /\ kept \subseteq in
            /\ (\E c \in in : c.id = cur) => (\E c \in kept : c.id = cur)
            /\ \A k \in kept : \A d \in in \ kept :
                    k.id # cur => k.updatedAt >= d.updatedAt
            /\ out.currentConversationId = cur
            /\ out.settings = storage.settings

\* witness of C25: a save has pruned six conversations to five; the current one, the
\* least recently updated, took the place of the fifth most recent
C25_Witness ==
    /\ ls # <<>>
    /\ LET convs == Rehydrate(ls[1]).conversations IN
        /\ Len(convs) = maxConversations
        /\ convs[maxConversations].id = ls[1].currentConversationId
        /\ \A i \in 1..(maxConversations - 1) :
                convs[i].updatedAt > convs[maxConversations].updatedAt
        /\ \E i \in 1..Len(convs) : convs[i].messages # <<>>

\* C16: whenever clearChatHistory has reported success, under any behaviour of the
\* backends (the sessionStorage fallback included), a load returns the empty default
\* store (no conversations, currentConversationId null) and no conversation can be
\* read from localStorage or from sessionStorage.
C16_ClearResetsBothBackends ==
    (res.op = "clear" /\ res.success) =>
        /\ Reloaded = getDefaultChatStorage
        /\ StoredIds(ls) = {}
        /\ StoredIds(ss) = {}

\* C17: getCurrentConversation, called in the current state with localStorage
\* readable, under any behaviour of the writes and of sessionStorage: when
\* currentConversationId resolves in the store it loads, it
\* returns that conversation and writes nothing; otherwise it returns a new empty
\* conversation, and when the save of the store with that conversation appended and
\* made current has succeeded, an immediately following call with working backends
\* returns the same conversation id and creates nothing.
C17_GetCurrentConversation ==
    \A le \in {e \in LoadEnvs : e.lr = "ok"}, se \in SaveCases :
        LET storage == getChatStorageWithFallback(ls, ss, le).storage
            idx == IF storage.currentConversationId # Null
                   THEN FindIndex(storage.conversations, storage.currentConversationId)
                   ELSE 0
            r == getCurrentConversation(ls, ss, NewConvId, now, le, se)
            updated == [storage EXCEPT
                           !.conversations = Append(@, createConversation(NewConvId, now)),
                           !.currentConversationId = NewConvId]
            saved == saveChatStorage(updated, ls, ss, se).success
            following == getCurrentConversation(r.ls, r.ss, NewConvId + 1, now,
                                                NominalLoad, NominalSave)
        IN
        /\ idx > 0 =>
               /\ r.conversation = storage.conversations[idx]
               /\ ~r.created
               /\ r.ls = ls /\ r.ss = ss
        /\ idx = 0 =>
               /\ r.created
               /\ r.conversation = createConversation(NewConvId, now)
               /\ saved =>
                      /\ following.conversation.id = r.conversation.id
                      /\ ~following.created

\* C18: deleteConversation(id), called in the current state with working backends:
\* for an unknown id it returns success = false and writes nothing; otherwise the
\* conversation is gone from the saved store, and currentConversationId is unchanged
\* when another conversation was current, is the remaining conversation with the
\* greatest updatedAt when the current one was deleted, and is a freshly created
\* empty conversation, the only one of the store, when none remained.
C18_DeleteConversation ==
    \A id \in TargetIds :
        LET storage == getChatStorage(ls, ss, NominalLoad)
            idx == FindIndex(storage.conversations, id)
            r == deleteConversation(ls, ss, id, NewConvId, now, NominalLoad, NominalSave)
            after == getChatStorage(r.ls, r.ss, NominalLoad)
            remaining == Splice(storage.conversations, idx)
            cur == FindIndex(after.conversations, after.currentConversationId)
        IN
        /\ idx = 0 => ~r.success /\ r.ls = ls /\ r.ss = ss
        /\ idx > 0 =>
               /\ r.success
               /\ FindIndex(after.conversations, id) = 0
               /\ storage.currentConversationId # id =>
                      /\ after.currentConversationId = storage.currentConversationId
                      /\ after.conversations = remaining
               /\ (storage.currentConversationId = id /\ remaining # <<>>) =>
                      /\ Len(after.conversations) = Len(remaining)
                      /\ \A i \in 1..Len(remaining) :
                             FindIndex(after.conversations, remaining[i].id) > 0
                      /\ cur > 0
                      /\ \A i \in 1..Len(remaining) :
                             remaining[i].updatedAt <= after.conversations[cur].updatedAt
               /\ (storage.currentConversationId = id /\ remaining = <<>>) =>
                      /\ after.conversations = <<createConversation(NewConvId, now)>>
                      /\ after.currentConversationId = NewConvId

\* witness of C18: the current conversation of an earlier session, its oldest, has
\* been deleted: the five others remain and the most recent of them is current
C18_Witness ==
    /\ res.op = "delete"
    /\ res.success
    /\ Len(Reloaded.conversations) = maxConversations
    /\ FindIndex(Reloaded.conversations, 1) = 0
    /\ Reloaded.currentConversationId = EarlierConvs

(***************************************************************************)
(* Properties of the validation (checked under SpecValid).                 *)
(***************************************************************************)
\* the classes of characters the claim calls meaningful
MeaningfulClasses == {"latin", "digit", "accented", "thai", "cjk"}

\* C6: validateMessageInput returns false for every non-string, null/undefined or
\* empty input and for every string made only of whitespace; it returns true for
\* every string of length at most 4000 that contains at least one meaningful
\* character (Latin letter, digit, accented Latin, Thai or CJK), whatever whitespace
\* or punctuation surrounds it.
C6_ValidateMessageInput ==
    vDone =>
        LET s == vInput.value IN
        /\ vInput.type # "string" => ~vResult
        /\ (vInput.type = "string" /\ \A i \in 1..Len(s) : s[i].cls = "space") => ~vResult
        /\ (/\ vInput.type = "string"
            /\ Length(s) <= 4000
            /\ \E i \in 1..Len(s) : s[i].cls \in MeaningfulClasses) => vResult

\* witness of C6: a string of exactly 4000 characters, leading whitespace and then
\* Thai characters, has been accepted
C6_Witness ==
    /\ vDone
    /\ vResult
    /\ vInput.value = <<[cls |-> "space", n |-> 1],
                        [cls |-> "thai", n |-> MAX_MESSAGE_LENGTH - 1]>>

(***************************************************************************)
(* Properties of the retry executor (checked under SpecRetry).             *)
(***************************************************************************)
RunEnded == rPc \in {"returned", "thrown"}

\* C7: while online, an operation that fails twice with a retryable error and then
\* succeeds is invoked exactly 3 times by a run with maxRetries >= 2, and the run
\* returns its value; an operation that always fails with a terminal (non-retryable)
\* error is invoked exactly once, and the run throws that error without a backoff wait.
C7_RetryCallCounts ==
    (RunEnded /\ rFastFails = 0) =>
        /\ (/\ ~operation.always
            /\ operation.failures = 2
            /\ isRetryableError(operation.error)
            /\ configMaxRetries >= 2) =>
                rPc = "returned" /\ rCalls = 3
        /\ (operation.always /\ ~isRetryableError(operation.error)) =>
                /\ rPc = "thrown"
                /\ rCalls = 1
                /\ rWaits = 0
                /\ lastError = operation.error

\* witness of C7: a run with maxRetries >= 1 has thrown the terminal error of an
\* operation that always fails, after one call
C7_Witness ==
    /\ rPc = "thrown"
    /\ rFastFails = 0
    /\ operation.always
    /\ operation.error = ValidationError({})
    /\ configMaxRetries >= 1
    /\ rCalls = 1

\* C23: when the monitor reports offline at the start of an attempt, the operation is
\* not invoked for that attempt and the run ends at once with a NetworkError: no
\* backoff wait and no further attempt follow.
C23_OfflineFastFail ==
    [][(rPc = "try" /\ ~isOnline /\ rPc' # rPc) =>
            /\ rCalls' = rCalls
            /\ lastError'.cls = "NetworkError"
            /\ rPc' = "thrown"
            /\ rWaits' = rWaits]_vars

\* the classification C24 states
StatedTerminal(e) ==
    \/ e.cls = "ValidationError"
    \/ e.cls = "APIError" /\ e.statusCode = 401

StatedRetryable(e) ==
    \/ e.cls = "NetworkError"
    \/ e.cls = "APIError" /\ e.statusCode \in retryableStatusCodes
    \/ /\ e.cls = "Error"
       /\ (e.name = "TimeoutError" \/ "timeout" \in e.message)

\* C24: the retry executor waits and tries again after a NetworkError, an APIError
\* with a status in {408, 429, 500, 502, 503, 504} or a timeout error, and after no
\* other error; every ValidationError and every APIError with status 401 is terminal,
\* whatever its message: an operation failing with one is never invoked a second time.
C24_ErrorClassification ==
    /\ rPc = "backoff" => StatedRetryable(lastError)
    /\ (rPc = "thrown" /\ retryCount <= configMaxRetries) => ~StatedRetryable(lastError)
    /\ StatedTerminal(operation.error) => rCalls <= 1

\* C30: a run of retryWithBackoff ends, whatever the operation does and however the
\* connectivity changes: it invokes the operation at most maxRetries + 1 times and
\* waits at most maxRetries times, and it either returns the result of the first
\* call that succeeds or throws the error of its last attempt.
C30_RetryTerminates ==
    /\ [](/\ rCalls <= configMaxRetries + 1
          /\ rWaits <= configMaxRetries
          /\ retryCount <= configMaxRetries + 1
          /\ rPc = "returned" =>
                /\ ~Rejects(operation, rCalls)
                /\ \A k \in 1..(rCalls - 1) : Rejects(operation, k)
          /\ rPc = "thrown" =>
                /\ lastError \in {operation.error, OfflineError}
                /\ lastError # NoError)
    /\ <>RunEnded

\* witness of C30: a run with maxRetries = MaxRetryOption has used every attempt on
\* an operation that always fails, and has thrown
C30_Witness ==
    /\ rPc = "thrown"
    /\ configMaxRetries = MaxRetryOption
    /\ rCalls = MaxRetryOption + 1
    /\ rWaits = MaxRetryOption
    /\ lastError = operation.error

(***************************************************************************)
(* Properties of the offline send queue (checked under SpecQueue).         *)
(***************************************************************************)
AllFulfilled(outcome) == \A i \in 1..Len(outcome) : outcome[i] = "fulfilled"

\* C8: a drain hands every message of the queue to the send function, whatever the
\* outcome of the other sends, and reports one outcome per message, each message's
\* own; when the sends of all N messages succeed (and nothing is pushed meanwhile)
\* the drain ends with an empty queue and N fulfilled outcomes.
C8_DrainOutcomes ==
    \A d \in 1..Len(drains) :
        LET drain == drains[d] IN
        /\ drain.started = 1..Len(drain.messages)
        /\ drain.returned =>
            /\ Len(drain.results) = Len(drain.messages)
            /\ \A i \in 1..Len(drain.messages) : drain.results[i] = drain.outcome[i]
            /\ (AllFulfilled(drain.outcome) /\ pushes = drain.pushesAtStart) =>
                  /\ messageQueue = <<>>
                  /\ AllFulfilled(drain.results)

\* witness of C8: a drain of two messages has ended with a rejected first and a
\* fulfilled second outcome
C8_Witness ==
    \E d \in 1..Len(drains) :
        /\ drains[d].returned
        /\ Len(drains[d].messages) = 2
        /\ drains[d].results = <<"rejected", "fulfilled">>

\* the queue entries an invocation has handed to the send function: a message id
\* with the retry count it was queued with
Handed(d) ==
    {<<drains[d].messages[i].id, drains[d].messages[i].retryCount>> :
        i \in drains[d].started}

Waiting == {<<messageQueue[i].id, messageQueue[i].retryCount>> : i \in 1..Len(messageQueue)}

\* C20: processQueuedMessages copies and empties the queue before any send starts, so
\* among invocations that overlap (or follow one another) no queue entry is handed
\* to the send function by two of them, nor twice by one: every entry that was pushed
\* is either still waiting in the queue or was handed over by exactly one invocation.
C20_NoDoubleSend ==
    /\ \A d1, d2 \in 1..Len(drains) : d1 # d2 => Handed(d1) \cap Handed(d2) = {}
    /\ \A d \in 1..Len(drains) :
        /\ Handed(d) \cap Waiting = {}
        /\ Cardinality(Handed(d)) = Len(drains[d].messages)
    /\ Cardinality(Waiting) = Len(messageQueue)
    /\ Cardinality(Waiting \cup UNION {Handed(d) : d \in 1..Len(drains)}) = pushes

\* witness of C20: a second invocation has started while a send of the first is
\* pending; each has taken the message that was in the queue when it started
C20_Witness ==
    /\ Len(drains) = 2
    /\ Len(drains[1].messages) = 1
    /\ drains[1].outcome[1] = "pending"
    /\ Len(drains[2].messages) = 1
    /\ drains[2].outcome[1] = "pending"
    /\ drains[1].messages[1].id # drains[2].messages[1].id

(***************************************************************************)
(* Properties of a queued message's life (checked under SpecLife).         *)
(***************************************************************************)
\* the sends of message m: <<d, i>> when invocation d handed it over as its i-th
Attempts(m) ==
    {a \in UNION {{<<d, i>> : i \in 1..Len(drains[d].messages)} : d \in 1..Len(drains)} :
        drains[a[1]].messages[a[2]].id = m}

AttemptsWith(m, outcome) == {a \in Attempts(m) : drains[a[1]].outcome[a[2]] = outcome}

InQueue(m) == {i \in 1..Len(messageQueue) : messageQueue[i].id = m}

\* C21: a message is queued with retryCount 0; each failed send of a drain queues it
\* again with retryCount one higher while its retryCount is below maxRetries, a
\* failure at retryCount = maxRetries drops it, a successful send removes it.  So a
\* queued message's retryCount is the number of its failed sends and lies within
\* 0..maxRetries, a message is in the queue exactly when it has no send pending, none
\* fulfilled and fewer than maxRetries + 1 failed, and drains attempt one message at
\* most maxRetries + 1 times.
C21_QueuedMessageLifecycle ==
    \A m \in 1..queued :
        LET failed == Cardinality(AttemptsWith(m, "rejected"))
            over == \/ AttemptsWith(m, "pending") # {}
                    \/ AttemptsWith(m, "fulfilled") # {}
                    \/ failed = maxRetries + 1
        IN  /\ \A i \in InQueue(m) :
                /\ messageQueue[i].retryCount = failed
                /\ messageQueue[i].retryCount \in 0..maxRetries
            /\ \A a \in Attempts(m) :
                drains[a[1]].messages[a[2]].retryCount =
                    Cardinality({b \in AttemptsWith(m, "rejected") : b[1] < a[1]})
            /\ Cardinality(Attempts(m)) <= maxRetries + 1
            /\ Cardinality(InQueue(m)) = IF over THEN 0 ELSE 1

\* witness of C21: the first message failed maxRetries + 1 times and was dropped, and
\* a drain was called after that
C21_Witness ==
    /\ Cardinality(AttemptsWith(1, "rejected")) = maxRetries + 1
    /\ InQueue(1) = {}
    /\ Len(drains) = maxRetries + 2

\* C22: getQueuedMessages returns the queued messages in the order of their
\* original enqueue time: the timestamps never decrease along the list, whatever
\* calls of queueMessageForRetry and drains came before.
C22_QueueInEnqueueOrder ==
    LET listed == getQueuedMessages(messageQueue) IN
    \A i, j \in 1..Len(listed) : i < j => listed[i].timestamp <= listed[j].timestamp

(***************************************************************************)
(* Properties of the redemption route (checked under SpecRedeem).          *)
(***************************************************************************)
Succeeded(c) == {r \in 1..MaxRequests : reqs[r].status = 200 /\ reqs[r].cleanCode = c}
Entries(c) == {i \in 1..Len(Point) : Point[i].code = c}

\* C9: a redemption code is single-use: of the requests carrying the same code at
\* most one succeeds, at most one Point history entry is written for the code (one
\* when a request succeeded), and its points are added to a total at most once.
C9_CodeIsSingleUse ==
    \A c \in DOMAIN Code :
        /\ Cardinality(Succeeded(c)) <= 1
        /\ Cardinality(Entries(c)) <= 1
        /\ Succeeded(c) # {} => Cardinality(Entries(c)) = 1

RECURSIVE HistoryPoints(_, _)
\* the sum of the points of the history entries of a lineId
HistoryPoints(entries, lineId) ==
    IF entries = <<>> THEN 0
    ELSE (IF Head(entries).lineId = lineId THEN Head(entries).points ELSE 0)
         + HistoryPoints(Tail(entries), lineId)

\* C29: when the requests are completed, concurrent ones of one lineId for different
\* codes included, the totalPoints of a user is the sum of the points of the user's
\* history entries, and a code is marked used exactly when a history entry was
\* written for it.  Codes redeemed twice are the matter of C9 and are left out here.
C29_LedgerConsistent ==
    (/\ \A r \in 1..MaxRequests : reqs[r].pc \in {"idle", "done"}
     /\ \A c \in DOMAIN Code : Cardinality(Entries(c)) <= 1) =>
        /\ \A i \in 1..Len(User) :
                User[i].totalPoints = HistoryPoints(Point, User[i].lineId)
        /\ \A u \in LineIds :
                HistoryPoints(Point, u) > 0 => \E i \in 1..Len(User) : User[i].lineId = u
        /\ \A c \in DOMAIN Code : Code[c].usedBy # NoUser <=> Entries(c) # {}

(***************************************************************************)
(* Properties of the chat page (checked under SpecChat).                   *)
(***************************************************************************)
\* C10: when a valid message is submitted while the connectivity monitor reports
\* offline, no fetch is attempted, the queue grows by exactly one entry holding the
\* message's content, the displayed messages end with the 'queued' notice, the error
\* state is null and isLoading is false.
C10_OfflineSubmit ==
    [][(/\ submits' = submits + 1
        /\ validateMessageInput(StringInput(Chars(input)))
        /\ ~isOnline) =>
            (/\ fetchCalls' = fetchCalls
             /\ Len(messageQueue') = Len(messageQueue) + 1
             /\ messageQueue'[Len(messageQueue')].content = input
             /\ messageQueue'[Len(messageQueue')].retryCount = 0
             /\ Len(messages') = Len(messages) + 2
             /\ messages'[Len(messages') - 1] = [role |-> "user", content |-> input]
             /\ messages'[Len(messages')].content = QueuedNotice
             /\ error' = NoChatError
             /\ isLoading' = FALSE)]_vars

\* witness of C10: a text has been submitted offline: it is queued, the notice is
\* displayed, and no request has been made
C10_Witness ==
    /\ ~isOnline
    /\ Len(messageQueue) = 1
    /\ messageQueue[1].content = " hi "
    /\ Len(messages) = 2
    /\ messages[2].content = QueuedNotice
    /\ fetchCalls = 0
    /\ error = NoChatError
    /\ ~isLoading

\* the (role, content) pairs persisted for conversation id, as a load returns them
PersistedPairs(id) ==
    LET storage == getChatStorage(ls, ss, NominalLoad)
        idx == FindIndex(storage.conversations, id)
    IN IF idx = 0 THEN <<>> ELSE UiMessages(storage.conversations[idx].messages)

RECURSIVE Join(_)
\* the text a sequence of text-deltas adds up to
Join(ds) == IF ds = <<>> THEN "" ELSE Head(ds) \o Join(Tail(ds))

C12_QueueFlushedOnReconnect ==
    []((messageQueue # <<>>) => (<>[]isOnline => <>(messageQueue = <<>>)))

\* C14: a send that fails once the request has been made (any error but the
\* offline 'queued' case) ends handleSubmit with the input field holding exactly
\* the submitted text, the error state set and isLoading false.  The submitted text
\* is the field's content at the submit; it is kept while the send is in flight.
C14_FailedSendKeepsText ==
    [][/\ (submits' = submits + 1 /\ chatPc' = "sending") => currentInput' = input
       /\ (chatPc # "idle") => currentInput' = currentInput
       /\ (chatPc # "idle" /\ chatPc' = "idle" /\ msgCount' = msgCount) =>
              /\ input' = currentInput
              /\ error' \in SendErrors
              /\ error' # NoChatError
              /\ isLoading' = FALSE]_vars

\* witness of C14: " hi " was submitted online and the send has failed: the field
\* holds " hi ", the error is set and nothing is loading
C14_Witness ==
    /\ submits = 1
    /\ fetchCalls = 1
    /\ chatPc = "idle"
    /\ error \in SendErrors
    /\ currentInput = " hi "
    /\ input = " hi "
    /\ ~isLoading
    /\ msgCount = 1

\* the user messages a load finds: <<c, i>> for the i-th message of the c-th
\* conversation
PersistedUserMessages ==
    LET convs == getChatStorage(ls, ss, NominalLoad).conversations IN
    {p \in UNION {{<<c, i>> : i \in 1..Len(convs[c].messages)} : c \in 1..Len(convs)} :
        convs[p[1]].messages[p[2]].role = "user"}

\* C28: each user submission is persisted once: handleSubmit calls that handleRetry
\* made for a failed send (whose text was restored) add no further copy of the user
\* message, so the store never holds more user messages than the handleSubmit
\* calls that were not retries.
C28_SubmissionPersistedOnce ==
    Cardinality(PersistedUserMessages) <= submits - retries

\* no character of the text is a letter or digit the validation calls meaningful
NoMeaningfulContent(text) ==
    ~\E i \in 1..Len(Chars(text)) : Chars(text)[i].cls \in MeaningfulClasses

\* C15: a call of handleSubmit with an input that validateMessageInput rejects (the
\* typed texts without a meaningful character: empty, whitespace, punctuation)
\* appends nothing to the persisted store, makes no network call, queues nothing
\* and leaves the displayed messages and the input text unchanged; it leaves the
\* error state unchanged too (null, when handleRetry has made the call, which
\* clears the error before it calls handleSubmit).
C15_InvalidInputStopsAtBoundary ==
    [][(submits' = submits + 1) =>
          /\ NoMeaningfulContent(input) <=>
                 ~validateMessageInput(StringInput(Chars(input)))
          /\ NoMeaningfulContent(input) =>
                 /\ UNCHANGED <<ls, ss, msgCount, fetchCalls, chatPc, messageQueue,
                                queued, pushes, messages, input, isLoading>>
                 /\ error' = IF retries' = retries THEN error ELSE NoChatError]_vars

\* witness of C15: "?!" has been submitted: nothing is persisted, displayed,
\* requested or queued, and the text is still in the field
C15_Witness ==
    /\ submits = 1
    /\ retries = 0
    /\ input = "?!"
    /\ PersistedPairs(currentConversation) = <<>>
    /\ messages = <<>>
    /\ msgCount = 0
    /\ fetchCalls = 0
    /\ messageQueue = <<>>
    /\ error = NoChatError

\* C19: whenever no send is in flight on the initialised page, the (role, content)
\* pairs of the displayed messages are, in order, those persisted for the current
\* conversation.
C19_DisplayedEqualsPersisted ==
    (isInitialized /\ chatPc = "idle" /\ ~isLoading) =>
        messages = PersistedPairs(currentConversation)

(***************************************************************************)
(* Properties of the connectivity monitor (checked under SpecNet).         *)
(***************************************************************************)
\* C13: a step that changes the connectivity state (a browser event or a probe
\* result) invokes every listener registered at that time exactly once, with the new
\* state, in registration order; a step that leaves the state unchanged invokes no
\* listener.  This holds however often initializeNetworkMonitoring has been called.
C13_ListenersNotifiedOncePerChange ==
    [][/\ (isOnline' # isOnline) =>
              calls' = [i \in 1..Len(connectivityListeners) |->
                           [listener |-> connectivityListeners[i], online |-> isOnline']]
       /\ (isOnline' = isOnline) => calls' = <<>>]_vars

\* witness of C13: the monitor was initialised twice, and the latest change of the
\* state has invoked the two registered listeners, once each
C13_Witness ==
    /\ monitors = 2
    /\ Len(connectivityListeners) = 2
    /\ Len(calls) = 2
    /\ calls[1] = [listener |-> connectivityListeners[1], online |-> isOnline]
    /\ calls[2] = [listener |-> connectivityListeners[2], online |-> isOnline]

(***************************************************************************)
(* Properties of the stream loop (checked under SpecStream).               *)
(***************************************************************************)
\* C26: however the bytes of a response made of text-delta lines are cut into read
\* chunks, cuts inside a line included, the string sendMessageToAPI returns is the
\* concatenation in order of all textDelta values, and after each processed delta
\* the assistant content is a prefix of that string.
C26_StreamReassembly ==
    /\ chatPc = "returned" => assistantContent = Join(textStream)
    /\ chatPc = "streaming" =>
            \E k \in 0..Len(textStream) : assistantContent = Join(SubSeq(textStream, 1, k))

(***************************************************************************)
(* Properties of the product consultation (checked under SpecDialog).      *)
(***************************************************************************)
UserSaid == SelectSeq(consultation, LAMBDA m : m.role = "user")

\* C27: processConversationalMessage asks for the first piece of information the
\* user messages have not supplied, in the order skin type, budget, skin concern;
\* once they have supplied all three the response is a recommendation, and no
\* further question.
C27_DialogProgress ==
    consultation # <<>> =>
        LET skinKnown == \E i \in 1..Len(UserSaid) : UserSaid[i].skin # ""
            budgetKnown == \E i \in 1..Len(UserSaid) : UserSaid[i].budget # ""
            concernKnown == \E i \in 1..Len(UserSaid) : UserSaid[i].concerns # {}
        IN response.text = IF ~skinKnown THEN "skinType?"
                           ELSE IF ~budgetKnown THEN "budget?"
                           ELSE IF ~concernKnown THEN "concern?"
                           ELSE "recommendation"

====
